---- MODULE Spec2Model ----
(***************************************************************************)
(* Verification model of the Chinese-Tutor resilience and assessment      *)
(* layer: the retrying transport (fetchWithRetry), the server-side rate   *)
(* limiter (checkRateLimit) and the chat orchestrator (sendMessage with   *)
(* analyzeUserLevel / updateUserLevel / generateRecommendations).         *)
(*                                                                         *)
(* The specifications share the variables:                                *)
(*   SpecRetry   - fetchWithRetry called directly with arbitrary options  *)
(*   SpecLimiter - checkRateLimit under a ticking clock                    *)
(*   SpecGate    - POST's gate: the key derived from request headers      *)
(*   SpecChat    - sendMessage driving fetchJsonWithRetry and the fan-out  *)
(*   SpecSession - SpecChat across days                                    *)
(*   SpecReset   - SpecChat with the debounced saves                       *)
(*   SpecUtil    - setItemSafe, getItemSafe, truncateMessages called       *)
(*                 directly                                                *)
(*   SpecDebounce - a wrapper made by debounce over a clock                *)
(*   SpecTopics  - trackConversationTopics called on observed contents      *)
(*   SpecFunctions - the endpoint's forwarding and the assessor's functions *)
(*                 applied once to an input                                *)
(*   SpecAssessor - sendMessage over a longer session, each request          *)
(*                 answered by its first response                          *)
(*   SpecReload  - SpecAssessor across days and reloads of the page         *)
(*   SpecBusy    - sends that pass validation, followed to their end         *)
(***************************************************************************)
EXTENDS Integers, Sequences, FiniteSets, TLC

(***************************************************************************)
(* Bounds of the model (not program constants).                           *)
(***************************************************************************)
\* largest maxRetries option a direct caller passes
MaxRetriesOpt == 2
\* clock ticks per rate-limit window (granularity of the model's clock)
TicksPerWindow == 2
\* the clock stops after this many ticks
MaxTicks == 3
\* calls to one key beyond MAX_REQUESTS that are explored within one window
MaxDenied == 1
\* calls explored per window on a key other than the one driven to the ceiling
MaxOther == 1
\* messages the user submits in one session (valid or not)
MaxSends == 3
\* days the session spans after its first day
MaxDays == 1
\* largest number of items the browser has room for in the storage utility calls
MaxRoom == 3
\* longest message list passed to truncateMessages
MaxSeqLen == 3
\* calls of the debounced wrapper in one behaviour
MaxCalls == 4
\* the debounce clock stops after this many ticks
MaxClock == 6
\* the `wait` argument of debounce, in ticks
WaitTicks == 2
\* longest history a client sends to the endpoint
MaxHistory == 22
\* topic keywords, from the head of the list, that observed texts contain
MaxKeywords == 6
\* most target-script characters in a text whose complexity is computed
MaxChars == 16
\* largest value of each counter passed to updateUserLevel directly
MaxCount == 5
\* messages sent in a session in which every request is answered at once
MaxExchanges == 5
\* most characters of a message that sanitizeInput replaces by an entity
MaxEscaped == 2

(***************************************************************************)
(* Small helpers.                                                          *)
(***************************************************************************)
Min(a, b) == IF a <= b THEN a ELSE b

RECURSIVE Pow(_, _)
Pow(b, e) == IF e = 0 THEN 1 ELSE b * Pow(b, e - 1)

Last(s) == s[Len(s)]

(***************************************************************************)
(* ResilientTransport: src/utils/localStorage.ts (apiRetry part).          *)
(***************************************************************************)
RetryFields == {"maxRetries", "initialDelay", "maxDelay", "backoffMultiplier", "retryableStatusCodes"}

\* DEFAULT_OPTIONS of fetchWithRetry
DEFAULT_OPTIONS ==
  [maxRetries |-> 3,
   initialDelay |-> 1000,
   maxDelay |-> 10000,
   backoffMultiplier |-> 2,
   retryableStatusCodes |-> {408, 429, 500, 502, 503, 504}]

\* API_CONFIG.RETRY_ATTEMPTS, RETRY_INITIAL_DELAY, RETRYABLE_STATUS_CODES
API_CONFIG ==
  [RETRY_ATTEMPTS |-> 3,
   RETRY_INITIAL_DELAY |-> 1000,
   RETRYABLE_STATUS_CODES |-> {408, 429, 500, 502, 503, 504},
   MAX_HISTORY_MESSAGES |-> 20]

\* const config = { ...DEFAULT_OPTIONS, ...retryOptions }: a key present in
\* retryOptions overrides the default, an absent key keeps it. retryOptions is
\* a partial object: `present` is the set of its keys, `values` their values.
MergeOptions(defaults, present, values) ==
  [f \in RetryFields |-> IF f \in present THEN values[f] ELSE defaults[f]]

\* Option values a direct caller of fetchWithRetry passes.
OptionValues ==
  [maxRetries : 0..MaxRetriesOpt,
   initialDelay : {500, 12000},
   maxDelay : {3000},
   backoffMultiplier : {1, 3},
   retryableStatusCodes : {{400}}]

\* HTTP statuses the endpoint answers with in the model.
Statuses == {200, 400, 429}

\* Response.ok: status in the range 200-299
ResponseOk(status) == status >= 200 /\ status <= 299

\* Mutant of shouldRetry: every non-ok status is retried.
shouldRetryAnyStatus(status, retryableStatusCodes) == TRUE

\* Mutant of shouldRetry: no status is retried.
shouldRetryNever(status, retryableStatusCodes) == FALSE

\* shouldRetry(status, retryableStatusCodes)
shouldRetry(status, retryableStatusCodes) == status \in retryableStatusCodes

\* What one fetch() attempt can produce: a Response, a rejection with an
\* Error (TypeError on network failure), or - only when the RequestInit
\* carries an AbortSignal - a rejection with the signal's abort reason, which
\* can be any value and need not be an Error.
Responses == {[kind |-> "response", status |-> s] : s \in Statuses}
ThrownErrors == {[kind |-> "Error", message |-> "Failed to fetch"]}
ThrownValues == {[kind |-> "value", message |-> "aborted"]}
Rejections(hasSignal) == IF hasSignal THEN ThrownErrors \cup ThrownValues ELSE ThrownErrors

NoValue == [kind |-> "none"]

\* Mutant of AsError: every thrown value is replaced by a fresh Error.
AsErrorAlwaysWraps(thrown) == [kind |-> "Error", message |-> "Unknown error"]

\* lastError = error instanceof Error ? error : new Error('Unknown error')
AsError(thrown) ==
  IF thrown.kind = "Error" THEN thrown ELSE [kind |-> "Error", message |-> "Unknown error"]

\* currentDelay = Math.min(currentDelay * config.backoffMultiplier, config.maxDelay)
NextDelay(cur, cfg) == Min(cur * cfg.backoffMultiplier, cfg.maxDelay)

(***************************************************************************)
(* RateLimiter: app/api/chat/route.ts (src/unnamed/part_002).              *)
(***************************************************************************)
\* RATE_LIMIT.WINDOW_MS
WINDOW_MS == 60000
\* RATE_LIMIT.MAX_REQUESTS
MAX_REQUESTS == 20

\* one tick of the model's clock, in ms
TickMs == WINDOW_MS \div TicksPerWindow

IPs == {"ip1"}
Clients == {"c1", "c2"}

\* x-forwarded-for header values: absent (the empty chain) or a chain of IPs
ForwardedValues == {<<>>, <<"ip1">>, <<"ip1", "proxy">>}
\* x-real-ip header values: absent ("") or an IP
RealIpValues == {"", "ip1"}

\* getRateLimitKey(request): first entry of x-forwarded-for, else x-real-ip,
\* else 'unknown'.
getRateLimitKey(forwarded, realIp) ==
  IF forwarded # <<>> THEN forwarded[1]
  ELSE IF realIp # "" THEN realIp
  ELSE "unknown"

Keys == IPs \cup {"unknown"}

\* Mutant of WindowElapsed: the window ends one instant early (>= for >).
WindowElapsedInclusive(record, t) == t >= record.resetTime

\* now > record.resetTime
WindowElapsed(record, t) == t > record.resetTime

\* Mutant of checkRateLimit: a denied call is counted too.
checkRateLimitCountsDenied(map, key, t) ==
  IF key \notin DOMAIN map \/ WindowElapsed(map[key], t)
    THEN [allowed |-> TRUE,
          map |-> [k \in DOMAIN map \cup {key} |->
                     IF k = key THEN [count |-> 1, resetTime |-> t + WINDOW_MS] ELSE map[k]]]
  ELSE IF map[key].count >= MAX_REQUESTS
    THEN [allowed |-> FALSE, map |-> [map EXCEPT ![key].count = @ + 1]]
  ELSE [allowed |-> TRUE, map |-> [map EXCEPT ![key].count = @ + 1]]

\* Mutant of checkRateLimit: a denied call starts the wait of the key anew.
checkRateLimitDenyExtends(map, key, t) ==
  IF key \notin DOMAIN map \/ WindowElapsed(map[key], t)
    THEN [allowed |-> TRUE,
          map |-> [k \in DOMAIN map \cup {key} |->
                     IF k = key THEN [count |-> 1, resetTime |-> t + WINDOW_MS] ELSE map[k]]]
  ELSE IF map[key].count >= MAX_REQUESTS
    THEN [allowed |-> FALSE, map |-> [map EXCEPT ![key].resetTime = t + WINDOW_MS]]
  ELSE [allowed |-> TRUE, map |-> [map EXCEPT ![key].count = @ + 1]]

\* Mutant of checkRateLimit: the ceiling is tested with > instead of >=.
checkRateLimitOffByOne(map, key, t) ==
  IF key \notin DOMAIN map \/ WindowElapsed(map[key], t)
    THEN [allowed |-> TRUE,
          map |-> [k \in DOMAIN map \cup {key} |->
                     IF k = key THEN [count |-> 1, resetTime |-> t + WINDOW_MS] ELSE map[k]]]
  ELSE IF map[key].count > MAX_REQUESTS THEN [allowed |-> FALSE, map |-> map]
  ELSE [allowed |-> TRUE, map |-> [map EXCEPT ![key].count = @ + 1]]

\* checkRateLimit(key) at time t = Date.now(): the value it returns and
\* rateLimitMap after the call.
checkRateLimit(map, key, t) ==
  IF key \notin DOMAIN map \/ WindowElapsed(map[key], t)
    THEN [allowed |-> TRUE,
          map |-> [k \in DOMAIN map \cup {key} |->
                     IF k = key THEN [count |-> 1, resetTime |-> t + WINDOW_MS] ELSE map[k]]]
  ELSE IF map[key].count >= MAX_REQUESTS THEN [allowed |-> FALSE, map |-> map]
  ELSE [allowed |-> TRUE, map |-> [map EXCEPT ![key].count = @ + 1]]

\* Mutant of PostAnswer: the upstream call is made before the gate is asked.
PostAnswerUngated(allowed, bodyOk, upstreamOk) ==
  IF ~bodyOk THEN [status |-> 500, upstream |-> 0]
  ELSE IF ~allowed THEN [upstream |-> 1, status |-> 429]
  ELSE [upstream |-> 1, status |-> IF upstreamOk THEN 200 ELSE 500]

\* What POST answers and how many upstream calls it makes (lines 102-139):
\* 429 at once when the gate denies; otherwise 500 from the catch block when
\* the body cannot be read or the upstream call fails, 200 with the reply
\* when it succeeds.
PostAnswer(allowed, bodyOk, upstreamOk) ==
  IF ~allowed THEN [status |-> 429, upstream |-> 0]
  ELSE IF ~bodyOk THEN [status |-> 500, upstream |-> 0]
  ELSE [upstream |-> 1, status |-> IF upstreamOk THEN 200 ELSE 500]

RECURSIVE SumSeq(_)
SumSeq(q) == IF q = <<>> THEN 0 ELSE q[1] + SumSeq(Tail(q))

(***************************************************************************)
(* ExchangeOrchestrator and ProficiencyAssessor: components/ChatInterface. *)
(***************************************************************************)
\* LEVEL_ASSESSMENT.MIN_INTERACTIONS
MIN_INTERACTIONS == 3
\* ERROR_THRESHOLDS.HIGH_ERRORS
HIGH_ERRORS == 3
\* VOCAB_THRESHOLDS.GROWING and LIMITED
VOCAB_GROWING == 20
VOCAB_LIMITED == 10

\* STORAGE_KEYS
STORAGE_KEYS ==
  [MESSAGES |-> "chinese-tutor-messages",
   WORDS |-> "chinese-tutor-words",
   LEVEL |-> "chinese-tutor-level",
   STREAK |-> "chinese-tutor-streak",
   LAST_PRACTICE |-> "chinese-tutor-last-practice",
   TOPICS |-> "chinese-tutor-topics"]

\* A text is modelled by the features the code reads from it:
\*   chars  - number of characters in the CJK range 一-鿿
\*   words  - text.split(/\s+/).length
\*   punct  - whether the sentence-punctuation class matches
\*   errors - number of correction-marker phrases detectErrors finds
\*   vocab  - the CJK words trackLearnedWords extracts
\*   topics - the topic keywords trackConversationTopics detects, in list order
UserTexts ==
  {[chars |-> 0, words |-> 3, punct |-> FALSE, errors |-> 0, vocab |-> {}, topics |-> <<>>],
   [chars |-> 20, words |-> 12, punct |-> TRUE, errors |-> 0, vocab |-> {}, topics |-> <<"food">>]}

AiTexts ==
  {[chars |-> 9, words |-> 7, punct |-> FALSE, errors |-> 0, vocab |-> 1..11, topics |-> <<"travel">>],
   [chars |-> 6, words |-> 9, punct |-> FALSE, errors |-> 2, vocab |-> 11..21, topics |-> <<>>]}

INPUT_CONSTRAINTS == [MAX_MESSAGE_LENGTH |-> 500, MIN_MESSAGE_LENGTH |-> 1]

STORAGE_CONFIG == [MAX_MESSAGES_STORED |-> 100, QUOTA_MB |-> 5, DEBOUNCE_DELAY |-> 1000]

\* What validation reads from the content of the input field:
\*   rawLen     - input.length
\*   trimmedLen - input.trim().length
\*   suspicious - whether one of the suspicious patterns matches the trimmed input
\* The shapes are: whitespace only; too long; at the maximum length once its
\* surrounding whitespace is trimmed; matching a suspicious pattern; ordinary.
InputShapes ==
  {[rawLen |-> 3, trimmedLen |-> 0, suspicious |-> FALSE],
   [rawLen |-> INPUT_CONSTRAINTS.MAX_MESSAGE_LENGTH + 1,
    trimmedLen |-> INPUT_CONSTRAINTS.MAX_MESSAGE_LENGTH + 1, suspicious |-> FALSE],
   [rawLen |-> INPUT_CONSTRAINTS.MAX_MESSAGE_LENGTH + 2,
    trimmedLen |-> INPUT_CONSTRAINTS.MAX_MESSAGE_LENGTH, suspicious |-> FALSE],
   [rawLen |-> 30, trimmedLen |-> 30, suspicious |-> TRUE],
   [rawLen |-> 12, trimmedLen |-> 12, suspicious |-> FALSE]}

\* What the user submits; `text` holds the features of the trimmed input.
Inputs ==
  {[rawLen |-> s.rawLen, trimmedLen |-> s.trimmedLen, suspicious |-> s.suspicious, text |-> u] :
     s \in InputShapes, u \in UserTexts}

\* sanitizeInput(input), sanitize.ts lines 7-35, on a trimmed message: the
\* length of the text it returns. The characters inside <...> tags are
\* removed (line 11), each '&' becomes the five characters of '&amp;'
\* (line 15), the other characters are kept.
AmpEntityLength == Len(<<"&", "a", "m", "p", ";">>)

sanitizeInput(message) ==
  IF message.trimmedLen = 0 THEN 0
  ELSE (message.trimmedLen - message.tagChars - message.amps) + AmpEntityLength * message.amps

\* Mutant of validateAndSanitizeMessage: the suspicious patterns are not tested.
validateAndSanitizeMessageNoPatterns(input, maxLength) ==
  IF input.trimmedLen = 0 THEN [valid |-> FALSE, error |-> "Message cannot be empty"]
  ELSE IF input.trimmedLen > maxLength
    THEN [valid |-> FALSE, error |-> "Message exceeds maximum length"]
  ELSE [valid |-> TRUE, error |-> ""]

\* validateAndSanitizeMessage(message, maxLength), sanitize.ts lines 41-89
validateAndSanitizeMessage(input, maxLength) ==
  IF input.trimmedLen = 0 THEN [valid |-> FALSE, error |-> "Message cannot be empty"]
  ELSE IF input.trimmedLen > maxLength
    THEN [valid |-> FALSE, error |-> "Message exceeds maximum length"]
  ELSE IF input.suspicious
    THEN [valid |-> FALSE, error |-> "Message contains potentially harmful content"]
  ELSE [valid |-> TRUE, error |-> ""]

\* Mutant of ReturnsAtOnce: the busy flag is not looked at.
ReturnsAtOnceBlankOnly(input, loading) == input.trimmedLen = 0

\* sendMessage line 566: if (!input.trim() || isLoading) return
ReturnsAtOnce(input, loading) == input.trimmedLen = 0 \/ loading

\* Bodies of an ok response: {response: text}, {response: ''}, a body that
\* carries an error field, or a body that is not JSON.
Bodies ==
  {[kind |-> "reply", text |-> a] : a \in AiTexts} \cup {[kind |-> "error"], [kind |-> "malformed"]}

NoProfile == [level |-> "none"]
NoFlight == [kind |-> "none"]
NoRate == <<0, 0>>

\* Mutant of hasChineseInput: every user text counts as target-script input.
hasChineseInputAnyText(text) == text.chars >= 0

\* /[一-鿿]/.test(userMessage)
hasChineseInput(text) == text.chars > 0

\* Mutant of calculateComplexity: the character points are not capped.
calculateComplexityUncapped(text) ==
  Min((IF text.chars > 0 THEN text.chars ELSE 0)
        + (IF text.words > 10 THEN 5 ELSE 0)
        + (IF text.punct THEN 10 ELSE 0),
      50)

\* calculateComplexity(text), in fifths of a point (CHARS_PER_POINT = 5):
\* min(chars / 5, 3) + (words > 10 ? 1 : 0) + (punct ? 2 : 0), at most 10.
calculateComplexity(text) ==
  Min((IF text.chars > 0 THEN Min(text.chars, 15) ELSE 0)
        + (IF text.words > 10 THEN 5 ELSE 0)
        + (IF text.punct THEN 10 ELSE 0),
      50)

\* detectErrors(aiResponse)
detectErrors(text) == text.errors

\* successRate > num/den for successRate = s / t (0 when t = 0)
RateAbove(s, t, num, den) == t > 0 /\ s * den > num * t
RateBelow(s, t, num, den) == IF t > 0 THEN s * den < num * t ELSE 0 < num

\* determineStrengths(successRate, complexity), with wordsLearned.size = vocab
determineStrengths(s, t, complexity, vocab) ==
  (IF RateAbove(s, t, 7, 10) THEN {"Good comprehension"} ELSE {})
  \cup (IF complexity > 25 THEN {"Complex sentence structure"} ELSE {})
  \cup (IF vocab > VOCAB_GROWING THEN {"Growing vocabulary"} ELSE {})

\* determineWeaknesses(errors, successRate), with wordsLearned.size = vocab
determineWeaknesses(errors, s, t, vocab) ==
  (IF errors > HIGH_ERRORS THEN {"Grammar accuracy"} ELSE {})
  \cup (IF RateBelow(s, t, 5, 10) THEN {"Overall fluency"} ELSE {})
  \cup (IF vocab < VOCAB_LIMITED THEN {"Limited vocabulary"} ELSE {})

\* Mutant of Tier: the tiers are tried from the lowest.
TierLowestFirst(s, t, complexity) ==
  IF RateAbove(s, t, 4, 10) /\ complexity > 10
    THEN [level |-> "elementary", hskLevel |-> 2, confidence |-> 7]
  ELSE IF RateAbove(s, t, 6, 10) /\ complexity > 20
    THEN [level |-> "intermediate", hskLevel |-> 3, confidence |-> 8]
  ELSE IF RateAbove(s, t, 8, 10) /\ complexity > 30
    THEN [level |-> "advanced", hskLevel |-> 5, confidence |-> 9]
  ELSE [level |-> "beginner", hskLevel |-> 1, confidence |-> 5]

\* Tier selection of updateUserLevel: [level, hskLevel, confidence (tenths)]
Tier(s, t, complexity) ==
  IF RateAbove(s, t, 8, 10) /\ complexity > 30
    THEN [level |-> "advanced", hskLevel |-> 5, confidence |-> 9]
  ELSE IF RateAbove(s, t, 6, 10) /\ complexity > 20
    THEN [level |-> "intermediate", hskLevel |-> 3, confidence |-> 8]
  ELSE IF RateAbove(s, t, 4, 10) /\ complexity > 10
    THEN [level |-> "elementary", hskLevel |-> 2, confidence |-> 7]
  ELSE [level |-> "beginner", hskLevel |-> 1, confidence |-> 5]

\* Mutant of updateUserLevel: the minimum-interactions guard admits one
\* interaction fewer.
updateUserLevelEarly(s, e, vocab, complexity, errors, at) ==
  IF s + e < MIN_INTERACTIONS - 1 THEN NoProfile
  ELSE [level |-> Tier(s, s + e, complexity).level,
        hskLevel |-> Tier(s, s + e, complexity).hskLevel,
        confidence |-> Tier(s, s + e, complexity).confidence,
        strengths |-> determineStrengths(s, s + e, complexity, vocab),
        weaknesses |-> determineWeaknesses(errors, s, s + e, vocab),
        lastAssessed |-> at]

\* updateUserLevel(complexity, errors): the profile it sets, or NoProfile when
\* it returns early. s, e and vocab are successfulResponses, errorCount and
\* wordsLearned.size as the callback's closure holds them.
updateUserLevel(s, e, vocab, complexity, errors, at) ==
  IF s + e < MIN_INTERACTIONS THEN NoProfile
  ELSE [level |-> Tier(s, s + e, complexity).level,
        hskLevel |-> Tier(s, s + e, complexity).hskLevel,
        confidence |-> Tier(s, s + e, complexity).confidence,
        strengths |-> determineStrengths(s, s + e, complexity, vocab),
        weaknesses |-> determineWeaknesses(errors, s, s + e, vocab),
        lastAssessed |-> at]

\* Mutant of generateRecommendations: the grammar recommendation comes first.
generateRecommendationsGrammarFirst(level) ==
  (IF "Grammar accuracy" \in level.weaknesses
     THEN <<[id |-> "grammar-1", difficulty |-> level.hskLevel]>>
     ELSE <<>>)
  \o (CASE level.level = "beginner" -> <<[id |-> "1", difficulty |-> 1], [id |-> "2", difficulty |-> 2]>>
        [] level.level = "elementary" -> <<[id |-> "3", difficulty |-> 3]>>
        [] level.level = "intermediate" -> <<[id |-> "4", difficulty |-> 4]>>
        [] OTHER -> <<>>)

\* generateRecommendations(level): the list it sets, as [id, difficulty]
generateRecommendations(level) ==
  (CASE level.level = "beginner" -> <<[id |-> "1", difficulty |-> 1], [id |-> "2", difficulty |-> 2]>>
     [] level.level = "elementary" -> <<[id |-> "3", difficulty |-> 3]>>
     [] level.level = "intermediate" -> <<[id |-> "4", difficulty |-> 4]>>
     [] OTHER -> <<>>)
  \o (IF "Grammar accuracy" \in level.weaknesses
        THEN <<[id |-> "grammar-1", difficulty |-> level.hskLevel]>>
        ELSE <<>>)

\* Mutant of RecommendationsAfter: updateUserLevel does not regenerate the list.
RecommendationsKept(profile, prev) == prev

\* The recommendations state after updateUserLevel: line 376 calls
\* generateRecommendations(newLevel), which line 453 sets; the early return of
\* line 343 leaves the list as it was.
RecommendationsAfter(profile, prev) ==
  IF profile = NoProfile THEN prev ELSE generateRecommendations(profile)

\* [...new Set([...detectedTopics, ...prev])].slice(0, 5)
RECURSIVE Dedup(_)
Dedup(q) ==
  IF q = <<>> THEN <<>>
  ELSE LET rest == Dedup(SubSeq(q, 1, Len(q) - 1)) IN
       IF \E i \in 1..Len(rest) : rest[i] = q[Len(q)] THEN rest ELSE Append(rest, q[Len(q)])

\* Mutant of MergeTopics: the earlier topics come first.
MergeTopicsOldFirst(detected, prev) ==
  SubSeq(Dedup(prev \o detected), 1, Min(5, Len(Dedup(prev \o detected))))

MergeTopics(detected, prev) == SubSeq(Dedup(detected \o prev), 1, Min(5, Len(Dedup(detected \o prev))))

\* localStorage as a map from the keys present to their values
StorePut(st, key, value) == [k \in DOMAIN st \cup {key} |-> IF k = key THEN value ELSE st[k]]
StoreRemove(st, key) == [k \in DOMAIN st \ {key} |-> st[k]]

\* STORAGE_QUOTA_MB
STORAGE_QUOTA_MB == 5

\* the size limit of setItemSafe in bytes: sizeInBytes / (1024 * 1024) > STORAGE_QUOTA_MB
QuotaBytes == STORAGE_QUOTA_MB * 1024 * 1024

\* serialized size of a value of a few kilobytes (a profile, a topic list)
SmallBytes == QuotaBytes \div 1024

\* keysToCheck of clearOldestData, in its order
keysToCheck == <<"chinese-tutor-messages", "chinese-tutor-topics", "chinese-tutor-words">>

\* clearOldestData(): removeItem never throws, also for a key that is not in
\* the store, so the loop calls removeItem on the first key of its list and
\* breaks.
clearOldestData(st) == StoreRemove(st, keysToCheck[1])

\* localStorage.setItem(key, value) succeeds. The browser's quota is counted in
\* items: it has room for `room` items, and a write that would leave more
\* items than that in the store throws QuotaExceededError.
SetItemAccepted(st, key, room) == Cardinality(DOMAIN st \cup {key}) <= room

\* Room of a browser that rejects every write (full) or none.
Room(full) == IF full THEN 0 ELSE Cardinality({STORAGE_KEYS[f] : f \in DOMAIN STORAGE_KEYS})

\* Mutant of setItemSafe: the size check of lines 18-21 is skipped.
setItemSafeNoSizeCheck(st, key, value, bytes, room) ==
  IF SetItemAccepted(st, key, room)
    THEN [ok |-> TRUE, store |-> StorePut(st, key, value)]
  ELSE IF SetItemAccepted(clearOldestData(st), key, room)
    THEN [ok |-> TRUE, store |-> StorePut(clearOldestData(st), key, value)]
  ELSE [ok |-> FALSE, store |-> clearOldestData(st)]

\* setItemSafe(key, value), where `bytes` is the serialized size of value:
\* what it returns (ok) and the store after the call.
setItemSafe(st, key, value, bytes, room) ==
  IF bytes > QuotaBytes
    THEN [ok |-> FALSE, store |-> st]
  ELSE IF SetItemAccepted(st, key, room)
    THEN [ok |-> TRUE, store |-> StorePut(st, key, value)]
  ELSE IF SetItemAccepted(clearOldestData(st), key, room)
    THEN [ok |-> TRUE, store |-> StorePut(clearOldestData(st), key, value)]
  ELSE [ok |-> FALSE, store |-> clearOldestData(st)]

\* JavaScript values as getItemSafe sees them: what matters is whether a
\* value is falsy.
Null == [name |-> "null", falsy |-> TRUE]
JsValues ==
  {[name |-> "zero", falsy |-> TRUE], [name |-> "emptyString", falsy |-> TRUE],
   [name |-> "false", falsy |-> TRUE], [name |-> "list", falsy |-> FALSE],
   [name |-> "text", falsy |-> FALSE]}

\* A stored item: JSON text that parses to a value, or text JSON.parse rejects.
Items == {[parses |-> TRUE, value |-> v] : v \in JsValues \cup {Null}} \cup {[parses |-> FALSE]}

\* defaultValue || null
OrNull(defaultValue) == IF defaultValue.falsy THEN Null ELSE defaultValue

\* getItemSafe(key, defaultValue): the value it returns
getItemSafe(st, key, defaultValue) ==
  IF key \notin DOMAIN st THEN OrNull(defaultValue)
  ELSE IF st[key].parses THEN st[key].value
  ELSE OrNull(defaultValue)

\* Array.prototype.slice(start) with one argument: a negative start counts
\* from the end, and -0 is 0.
SliceFrom(seq, start) ==
  IF start < 0
    THEN SubSeq(seq, (IF Len(seq) + start > 0 THEN Len(seq) + start ELSE 0) + 1, Len(seq))
    ELSE SubSeq(seq, Min(start, Len(seq)) + 1, Len(seq))

\* truncateMessages(messages, maxLength)
truncateMessages(msgs, maxLength) ==
  IF Len(msgs) <= maxLength THEN msgs ELSE SliceFrom(msgs, 0 - maxLength)

\* The body sendMessage posts (line 604): the sanitized input and
\* messagesRef.current, which the effect of lines 518-520 keeps equal to
\* `messages`.
RequestBody(local, message) == [message |-> message, messages |-> local]

\* Mutant of PostForward: the oldest entries are kept.
PostForwardOldest(body) ==
  SubSeq(body.messages, 1, Min(API_CONFIG.MAX_HISTORY_MESSAGES, Len(body.messages)))
    \o <<body.message>>

\* The `messages` POST passes to anthropic.messages.create (route lines
\* 110-127): messages.slice(-MAX_HISTORY_MESSAGES), mapped entry by entry,
\* then the current message.
PostForward(body) ==
  SliceFrom(body.messages, 0 - API_CONFIG.MAX_HISTORY_MESSAGES) \o <<body.message>>

\* debounce (lines 76-93): the closure variable `timeout` is null or the one
\* pending timer, which carries the time it is due and the arguments that its
\* `later` closed over.
NoTimer == [due |-> -1, args |-> 0]

\* Mutant of executedFunction: a pending timer is left as it is.
executedFunctionKeepsTimer(pending, args, wait, t) ==
  IF pending # NoTimer THEN pending ELSE [due |-> t + wait, args |-> args]

\* executedFunction(...args) at time t (lines 83-91): a pending timer is
\* cleared and a new one is set for t + wait, with later() bound to these args.
executedFunction(pending, args, wait, t) == [due |-> t + wait, args |-> args]

VARIABLES
  fpc,          \* position of fetchWithRetry: idle, sending, waiting, returned, thrown
  config,       \* merged retry configuration of the running call
  hasSignal,    \* whether the RequestInit of the call carries an AbortSignal
  attempt,      \* loop variable of fetchWithRetry
  currentDelay, \* delay the next wait will take
  lastError,    \* lastError of fetchWithRetry
  outcome,      \* what fetchWithRetry returned or threw
  attemptLog,   \* history: what each fetch() attempt produced, in order
  waitLog,      \* history: the delays waited, in order
  now,          \* Date.now() of the server process, in ms
  rateLimitMap, \* rateLimitMap: key -> [count, resetTime], for the keys stored
  lastCall,     \* history: the last request handled by the gate and its verdict
  gStart,       \* history: per key, when its current window started (-1: never)
  gCalls,       \* history: per key, calls made since its current window started
  gAdmits,      \* history: per key, calls admitted since its current window started
  recent,       \* history: calls of the key Driven admitted in each of the last TicksPerWindow ticks
  clientAdmits, \* history: per client, requests admitted at the current instant
  lastPost,     \* history: the last POST handled: gate verdict, status answered, upstream calls
  messages,     \* messages state: the kinds of the messages shown, in order
  isLoading,    \* busy flag
  wordsLearned, \* wordsLearned state
  userLevel,    \* userLevel state (NoProfile for null)
  recommendations,     \* recommendations state
  errorCount,          \* errorCount state
  successfulResponses, \* successfulResponses state
  dailyStreak,         \* dailyStreak state
  lastPracticeDate,    \* lastPracticeDate state (-1 for null), as a day number
  conversationTopics,  \* conversationTopics state
  store,        \* localStorage: key -> value, for the keys present
  storageFull,  \* whether the browser rejects localStorage writes (quota)
  today,        \* the current day, as a day number (the session starts on day 1)
  sends,        \* messages submitted so far in the session
  inflight,     \* the running sendMessage call: its message and closure values
  rateUsed,     \* history: <<successes, total>> of the last profile computation
  ustore,       \* the browser store the storage utilities are called on
  ucall,        \* history: the last call of a storage utility, its arguments and its result
  clock,        \* debounce: the time, in ticks
  timeout,      \* debounce: the closure's `timeout`, the pending timer or NoTimer
  calls,        \* history: the calls of the debounced wrapper, [at, args]
  invocations   \* history: the invocations of func, [at, args, n] with n the calls made before

retryVars == <<fpc, config, hasSignal, attempt, currentDelay, lastError, outcome, attemptLog, waitLog>>

limiterVars == <<now, rateLimitMap, lastCall, gStart, gCalls, gAdmits, recent, clientAdmits,
                 lastPost>>

chatVars == <<messages, isLoading, wordsLearned, userLevel, recommendations, errorCount,
              successfulResponses, dailyStreak, lastPracticeDate, conversationTopics, store,
              storageFull, today, sends, inflight, rateUsed>>

utilVars == <<ustore, ucall>>

debounceVars == <<clock, timeout, calls, invocations>>

vars == <<retryVars, limiterVars, chatVars, utilVars, debounceVars>>

InitRetry ==
  /\ fpc = "idle"
  /\ config = DEFAULT_OPTIONS
  /\ hasSignal = FALSE
  /\ attempt = 0
  /\ currentDelay = 0
  /\ lastError = NoValue
  /\ outcome = NoValue
  /\ attemptLog = <<>>
  /\ waitLog = <<>>

NoPost == [allowed |-> FALSE, status |-> 0, upstream |-> 0]

NoCall == [key |-> "none", client |-> "none", allowed |-> FALSE, at |-> -1, fresh |-> FALSE]

InitLimiter ==
  /\ now = 0
  /\ rateLimitMap = <<>>
  /\ lastCall = NoCall
  /\ gStart = [k \in Keys |-> -1]
  /\ gCalls = [k \in Keys |-> 0]
  /\ gAdmits = [k \in Keys |-> 0]
  /\ recent = [i \in 1..TicksPerWindow |-> 0]
  /\ clientAdmits = [c \in Clients |-> 0]
  /\ lastPost = NoPost

\* A profile an earlier session may have left under STORAGE_KEYS.LEVEL.
SavedProfiles ==
  {[level |-> "elementary", hskLevel |-> 2, confidence |-> 7, strengths |-> {},
    weaknesses |-> {"Grammar accuracy", "Limited vocabulary"}, lastAssessed |-> 0]}

\* The component after its mount effect (lines 457-515) has run over a store
\* that is empty or holds a saved profile: the welcome message is shown, the
\* saved profile is loaded and its recommendations are generated.
InitChat ==
  /\ store \in {<<>>} \cup {StorePut(<<>>, STORAGE_KEYS.LEVEL, p) : p \in SavedProfiles}
  /\ storageFull \in BOOLEAN
  /\ userLevel = IF STORAGE_KEYS.LEVEL \in DOMAIN store THEN store[STORAGE_KEYS.LEVEL] ELSE NoProfile
  /\ recommendations = IF userLevel = NoProfile THEN <<>> ELSE generateRecommendations(userLevel)
  /\ messages = <<"welcome">>
  /\ isLoading = FALSE
  /\ wordsLearned = {}
  /\ errorCount = 0
  /\ successfulResponses = 0
  /\ dailyStreak = 0
  /\ lastPracticeDate = -1
  /\ conversationTopics = <<>>
  /\ today = 1
  /\ sends = 0
  /\ inflight = NoFlight
  /\ rateUsed = NoRate

NoUCall == [fn |-> "none"]

InitUtil == ustore = <<>> /\ ucall = NoUCall

\* The wrapper as debounce(func, wait) returns it: `timeout` is null (line 81).
InitDebounce ==
  /\ clock = 0
  /\ timeout = NoTimer
  /\ calls = <<>>
  /\ invocations = <<>>

Init == InitRetry /\ InitLimiter /\ InitChat /\ InitUtil /\ InitDebounce

\* Entry of fetchWithRetry(url, options, retryOptions): lines 161-165.
\* The for loop is entered only if 0 <= maxRetries; otherwise line 204 throws.
EnterFetchWithRetry(present, values, signal) ==
  /\ config' = MergeOptions(DEFAULT_OPTIONS, present, values)
  /\ hasSignal' = signal
  /\ attempt' = 0
  /\ currentDelay' = config'.initialDelay
  /\ lastError' = NoValue
  /\ outcome' = NoValue
  /\ attemptLog' = <<>>
  /\ waitLog' = <<>>
  /\ fpc' = "sending"

\* A caller invokes fetchWithRetry directly with some options.
CallFetchWithRetry ==
  /\ fpc = "idle"
  /\ \E present \in SUBSET RetryFields, values \in OptionValues, signal \in BOOLEAN :
       EnterFetchWithRetry(present, values, signal)

\* await fetch(url, options) resolves with a Response: lines 167-184.
FetchResolves ==
  /\ fpc = "sending"
  /\ \E response \in Responses :
       /\ attemptLog' = Append(attemptLog, response)
       /\ IF ResponseOk(response.status) \/ ~shouldRetry(response.status, config.retryableStatusCodes)
            THEN /\ fpc' = "returned"
                 /\ outcome' = response
                 /\ UNCHANGED <<attempt, currentDelay, waitLog>>
            ELSE IF attempt = config.maxRetries
              THEN /\ fpc' = "returned"
                   /\ outcome' = response
                   /\ UNCHANGED <<attempt, currentDelay, waitLog>>
              ELSE /\ fpc' = "waiting"
                   /\ waitLog' = Append(waitLog, currentDelay)
                   /\ UNCHANGED <<attempt, currentDelay, outcome>>
  /\ UNCHANGED <<config, hasSignal, lastError>>

\* await fetch(url, options) rejects: the catch block, lines 186-199.
FetchRejects ==
  /\ fpc = "sending"
  /\ \E thrown \in Rejections(hasSignal) :
       /\ attemptLog' = Append(attemptLog, thrown)
       /\ lastError' = AsError(thrown)
       /\ IF attempt = config.maxRetries
            THEN /\ fpc' = "thrown"
                 /\ outcome' = lastError'
                 /\ UNCHANGED <<attempt, currentDelay, waitLog>>
            ELSE /\ fpc' = "waiting"
                 /\ waitLog' = Append(waitLog, currentDelay)
                 /\ UNCHANGED <<attempt, currentDelay, outcome>>
  /\ UNCHANGED <<config, hasSignal>>

\* Mutant of DelayElapses: the loop variable is not advanced.
DelayElapsesNoIncrement ==
  /\ fpc = "waiting"
  /\ currentDelay' = NextDelay(currentDelay, config)
  /\ fpc' = "sending"
  /\ UNCHANGED <<config, hasSignal, attempt, lastError, outcome, attemptLog, waitLog>>

\* await delay(currentDelay) resolves: backoff update and next loop iteration
\* (lines 181-184 / 196-199, then attempt++ of line 165).
DelayElapses ==
  /\ fpc = "waiting"
  /\ currentDelay' = NextDelay(currentDelay, config)
  /\ attempt' = attempt + 1
  /\ fpc' = "sending"
  /\ UNCHANGED <<config, hasSignal, lastError, outcome, attemptLog, waitLog>>

NextRetry ==
  \/ CallFetchWithRetry /\ UNCHANGED <<limiterVars, chatVars, utilVars, debounceVars>>
  \/ FetchResolves /\ UNCHANGED <<limiterVars, chatVars, utilVars, debounceVars>>
  \/ FetchRejects /\ UNCHANGED <<limiterVars, chatVars, utilVars, debounceVars>>
  \/ DelayElapses /\ UNCHANGED <<limiterVars, chatVars, utilVars, debounceVars>>

SpecRetry == Init /\ [][NextRetry]_vars

\* Time passes on the server: Date.now() advances by one tick.
Tick ==
  /\ now < MaxTicks * TickMs
  /\ now' = now + TickMs
  /\ recent' = Append(Tail(recent), 0)
  /\ clientAdmits' = [c \in Clients |-> 0]
  /\ UNCHANGED <<rateLimitMap, lastCall, gStart, gCalls, gAdmits, lastPost>>

\* The key whose calls are driven past the ceiling.
Driven == "ip1"

\* Calls explored on `key` within one of its windows: the key "ip1" is driven
\* past the ceiling, any other key gets a few calls.
CallBudget(key) == IF key = Driven THEN MAX_REQUESTS + MaxDenied ELSE MaxOther

WithinBudget(key) ==
  (gStart[key] # -1 /\ now <= gStart[key] + WINDOW_MS) => gCalls[key] < CallBudget(key)

\* History bookkeeping of one gate call on `key` with verdict r. The window
\* of a key starts with its first call and with the first call made after
\* windowMs has passed since the window's start.
RecordCall(client, key, r) ==
  LET fresh == gStart[key] = -1 \/ now > gStart[key] + WINDOW_MS IN
  /\ lastCall' = [key |-> key, client |-> client, allowed |-> r.allowed, at |-> now, fresh |-> fresh]
  /\ gStart' = IF fresh THEN [gStart EXCEPT ![key] = now] ELSE gStart
  /\ gCalls' = [gCalls EXCEPT ![key] = IF fresh THEN 1 ELSE @ + 1]
  /\ gAdmits' = [gAdmits EXCEPT ![key] = (IF fresh THEN 0 ELSE @) + (IF r.allowed THEN 1 ELSE 0)]

\* allow(key): checkRateLimit(key) called at the current instant.
Allow ==
  \E key \in Keys :
    LET r == checkRateLimit(rateLimitMap, key, now) IN
    /\ WithinBudget(key)
    /\ rateLimitMap' = r.map
    /\ RecordCall("none", key, r)
    /\ recent' = IF r.allowed /\ key = Driven
                   THEN [recent EXCEPT ![TicksPerWindow] = @ + 1]
                   ELSE recent
    /\ UNCHANGED <<now, clientAdmits, lastPost>>

\* POST(request), lines 99-140. The key is derived from the headers the
\* client sent and checkRateLimit decides; an admitted request has its body
\* parsed (bodyOk: request.json() and the history mapping do not throw) and
\* the upstream AI service called (upstreamOk: the call resolves).
Post ==
  \E client \in Clients, forwarded \in ForwardedValues, realIp \in RealIpValues,
     bodyOk \in BOOLEAN, upstreamOk \in BOOLEAN :
    LET key == getRateLimitKey(forwarded, realIp)
        r == checkRateLimit(rateLimitMap, key, now)
        answer == PostAnswer(r.allowed, bodyOk, upstreamOk)
    IN /\ WithinBudget(key)
       /\ rateLimitMap' = r.map
       /\ RecordCall(client, key, r)
       /\ clientAdmits' = IF r.allowed
                            THEN [clientAdmits EXCEPT ![client] = @ + 1]
                            ELSE clientAdmits
       /\ lastPost' = [allowed |-> r.allowed, status |-> answer.status,
                       upstream |-> answer.upstream]
       /\ UNCHANGED <<now, recent>>

\* The clock of the server jumps past the end of every open window.
WindowElapses ==
  /\ now + WINDOW_MS + TickMs <= MaxTicks * TickMs
  /\ now' = now + WINDOW_MS + TickMs
  /\ recent' = [i \in 1..TicksPerWindow |-> 0]
  /\ clientAdmits' = [c \in Clients |-> 0]
  /\ UNCHANGED <<rateLimitMap, lastCall, gStart, gCalls, gAdmits, lastPost>>

NextLimiter ==
  \/ Tick /\ UNCHANGED <<retryVars, chatVars, utilVars, debounceVars>>
  \/ Allow /\ UNCHANGED <<retryVars, chatVars, utilVars, debounceVars>>

SpecLimiter == Init /\ [][NextLimiter]_vars

NextGate ==
  \/ WindowElapses /\ UNCHANGED <<retryVars, chatVars, utilVars, debounceVars>>
  \/ Post /\ UNCHANGED <<retryVars, chatVars, utilVars, debounceVars>>

SpecGate == Init /\ [][NextGate]_vars

Terminal == fpc \in {"returned", "thrown"}

(***************************************************************************)
(* sendMessage and its continuation.                                       *)
(***************************************************************************)
\* The retry options sendMessage passes to fetchJsonWithRetry (lines 606-610).
SendRetryKeys == {"maxRetries", "initialDelay", "retryableStatusCodes"}

SendRetryOptions ==
  [maxRetries |-> API_CONFIG.RETRY_ATTEMPTS,
   initialDelay |-> API_CONFIG.RETRY_INITIAL_DELAY,
   maxDelay |-> DEFAULT_OPTIONS.maxDelay,
   backoffMultiplier |-> DEFAULT_OPTIONS.backoffMultiplier,
   retryableStatusCodes |-> API_CONFIG.RETRYABLE_STATUS_CODES]

\* sendMessage() up to its await (lines 565-611). The closure holds the
\* counters, the vocabulary size and the last-practice date of the render in
\* which the callback was created.
SendMessageWith(input) ==
  IF ReturnsAtOnce(input, isLoading)
    THEN UNCHANGED vars
  ELSE IF ~validateAndSanitizeMessage(input, INPUT_CONSTRAINTS.MAX_MESSAGE_LENGTH).valid
    THEN /\ messages' = Append(messages, "invalid")
         /\ sends' = sends + 1
         /\ UNCHANGED <<retryVars, limiterVars, utilVars, debounceVars, isLoading,
                        wordsLearned, userLevel, recommendations, errorCount,
                        successfulResponses, dailyStreak, lastPracticeDate,
                        conversationTopics, store, storageFull, today, inflight, rateUsed>>
  ELSE /\ fpc = "idle"
       /\ messages' = Append(messages, "user")
       /\ isLoading' = TRUE
       /\ sends' = sends + 1
       /\ inflight' = [kind |-> "send", text |-> input.text,
                       successfulResponses |-> successfulResponses,
                       errorCount |-> errorCount,
                       vocab |-> Cardinality(wordsLearned),
                       lastPracticeDate |-> lastPracticeDate]
       /\ EnterFetchWithRetry(SendRetryKeys, SendRetryOptions, FALSE)
       /\ UNCHANGED <<limiterVars, utilVars, debounceVars, wordsLearned, userLevel,
                      recommendations, errorCount, successfulResponses, dailyStreak,
                      lastPracticeDate, conversationTopics, store, storageFull, today,
                      rateUsed>>

SendMessage ==
  /\ sends < MaxSends
  /\ \E input \in Inputs : SendMessageWith(input)

\* trackConversationTopics(content): the topics state after the call
TopicsAfter(text, prev) == IF text.topics # <<>> THEN MergeTopics(text.topics, prev) ELSE prev

\* trackConversationTopics(content): the store after the call
TopicsStoreAfter(text, prev, st, full) ==
  IF text.topics # <<>>
    THEN setItemSafe(st, STORAGE_KEYS.TOPICS, MergeTopics(text.topics, prev), SmallBytes,
                     Room(full)).store
    ELSE st

\* Whether updateDailyStreak() throws: its bare localStorage.setItem calls
\* throw when the browser rejects writes, unless it returns at once because
\* the closure's lastPracticeDate is today.
StreakThrows(last, full) == full /\ last # today

\* fetchWithRetry gives control back to its caller: the locals of the call
\* (config, attempt, currentDelay, lastError) go out of scope.
LeaveFetchWithRetry ==
  /\ fpc' = "idle"
  /\ config' = DEFAULT_OPTIONS
  /\ hasSignal' = FALSE
  /\ attempt' = 0
  /\ currentDelay' = 0
  /\ attemptLog' = <<>>
  /\ waitLog' = <<>>
  /\ outcome' = NoValue
  /\ lastError' = NoValue

\* Mutant of SettleFailure: the finally block does not run after a failure.
SettleFailureStaysBusy(kind) ==
  /\ messages' = Append(messages, kind)
  /\ inflight' = NoFlight
  /\ UNCHANGED <<isLoading, wordsLearned, userLevel, recommendations, errorCount,
                 successfulResponses, dailyStreak, lastPracticeDate, conversationTopics,
                 store, rateUsed>>

\* Mutant of SettleFailure: the failed exchange is counted as an error.
SettleFailureCounted(kind) ==
  /\ messages' = Append(messages, kind)
  /\ isLoading' = FALSE
  /\ inflight' = NoFlight
  /\ errorCount' = errorCount + 1
  /\ UNCHANGED <<wordsLearned, userLevel, recommendations, successfulResponses,
                 dailyStreak, lastPracticeDate, conversationTopics, store, rateUsed>>

\* The catch block and the finally block of sendMessage (lines 651-665).
SettleFailure(kind) ==
  /\ messages' = Append(messages, kind)
  /\ isLoading' = FALSE
  /\ inflight' = NoFlight
  /\ UNCHANGED <<wordsLearned, userLevel, recommendations, errorCount, successfulResponses,
                 dailyStreak, lastPracticeDate, conversationTopics, store, rateUsed>>

\* The fan-out on a reply (lines 617-650), then the finally block.
SettleReply(ai) ==
  LET user == inflight.text
      last == inflight.lastPracticeDate
      profile == updateUserLevel(inflight.successfulResponses, inflight.errorCount,
                                 inflight.vocab, calculateComplexity(user), detectErrors(ai), sends)
      store1 == IF profile = NoProfile THEN store
                ELSE setItemSafe(store, STORAGE_KEYS.LEVEL, profile, SmallBytes,
                                 Room(storageFull)).store
      throws == StreakThrows(last, storageFull)
      store2 == IF last = today \/ storageFull THEN store1
                ELSE StorePut(StorePut(store1, STORAGE_KEYS.STREAK,
                                       IF last = today - 1 THEN dailyStreak + 1 ELSE 1),
                              STORAGE_KEYS.LAST_PRACTICE, today)
      topics1 == TopicsAfter(user, conversationTopics)
      store3 == TopicsStoreAfter(user, conversationTopics, store2, storageFull)
  IN
  /\ wordsLearned' = wordsLearned \cup ai.vocab
  /\ conversationTopics' = TopicsAfter(ai, topics1)
  /\ store' = TopicsStoreAfter(ai, topics1, store3, storageFull)
  /\ IF detectErrors(ai) > 0
       THEN errorCount' = errorCount + 1 /\ UNCHANGED successfulResponses
       ELSE IF hasChineseInput(user)
         THEN successfulResponses' = successfulResponses + 1 /\ UNCHANGED errorCount
         ELSE UNCHANGED <<errorCount, successfulResponses>>
  /\ recommendations' = RecommendationsAfter(profile, recommendations)
  /\ IF profile = NoProfile
       THEN UNCHANGED <<userLevel, rateUsed>>
       ELSE /\ userLevel' = profile
            /\ rateUsed' = <<inflight.successfulResponses,
                             inflight.successfulResponses + inflight.errorCount>>
  /\ IF last = today
       THEN UNCHANGED <<dailyStreak, lastPracticeDate>>
       ELSE IF last = today - 1
         THEN dailyStreak' = dailyStreak + 1 /\ lastPracticeDate' = today
         ELSE dailyStreak' = 1 /\ lastPracticeDate' = IF throws THEN lastPracticeDate ELSE today
  /\ messages' = Append(messages, IF throws THEN "connection" ELSE "ai")
  /\ isLoading' = FALSE
  /\ inflight' = NoFlight

\* sendMessage() after its await: fetchJsonWithRetry has returned or thrown.
\* `body` is what response.json() gives when the response is ok.
SettleWith(body) ==
  /\ inflight # NoFlight
  /\ Terminal
  /\ LeaveFetchWithRetry
  /\ IF fpc = "thrown" THEN SettleFailure("connection")
     ELSE IF ~ResponseOk(outcome.status) THEN SettleFailure("unavailable")
     ELSE IF body.kind = "reply" THEN SettleReply(body.text)
     ELSE SettleFailure("connection")
  /\ UNCHANGED <<limiterVars, utilVars, debounceVars, storageFull, today, sends>>

Settle == \E body \in Bodies : SettleWith(body)

\* No request of sendMessage is between its fetch and its continuation. An
\* event that only touches state the continuation reads has the same effect
\* at any point of the pending request, so it is explored outside this span.
NotMidFlight == fpc \notin {"sending", "waiting"}

\* Mutant of ClearChat: every key of the application is removed.
ClearChatRemovesAll ==
  /\ NotMidFlight
  /\ messages' = <<"welcome">>
  /\ store' = <<>>
  /\ UNCHANGED <<retryVars, limiterVars, utilVars, debounceVars, isLoading, wordsLearned,
                 userLevel, recommendations, errorCount, successfulResponses, dailyStreak,
                 lastPracticeDate, conversationTopics, storageFull, today, sends, inflight,
                 rateUsed>>

\* clearChat()
ClearChat ==
  /\ NotMidFlight
  /\ messages' = <<"welcome">>
  /\ store' = StoreRemove(store, STORAGE_KEYS.MESSAGES)
  /\ UNCHANGED <<retryVars, limiterVars, utilVars, debounceVars, isLoading, wordsLearned, userLevel, recommendations,
                 errorCount, successfulResponses, dailyStreak, lastPracticeDate,
                 conversationTopics, storageFull, today, sends, inflight, rateUsed>>

\* The timers of debouncedSaveMessages and debouncedSaveWords run (lines
\* 528-542). The effects of lines 545-555 set them in the commit in which
\* `messages` or `wordsLearned` changed, with the same delay, so the pending
\* ones run one after the other.
SaveTimersFire ==
  /\ inflight = NoFlight
  /\ LET st1 == setItemSafe(store, STORAGE_KEYS.MESSAGES,
                            truncateMessages(messages, STORAGE_CONFIG.MAX_MESSAGES_STORED),
                            SmallBytes, Room(storageFull)).store
     IN store' = IF wordsLearned = {} THEN st1
                 ELSE setItemSafe(st1, STORAGE_KEYS.WORDS, wordsLearned, SmallBytes,
                                  Room(storageFull)).store
  /\ store' # store
  /\ UNCHANGED <<retryVars, limiterVars, utilVars, debounceVars, messages, isLoading,
                 wordsLearned, userLevel, recommendations, errorCount, successfulResponses,
                 dailyStreak, lastPracticeDate, conversationTopics, storageFull, today,
                 sends, inflight, rateUsed>>

\* Midnight passes.
DayPasses ==
  /\ NotMidFlight
  /\ today <= MaxDays
  /\ today' = today + 1
  /\ UNCHANGED <<retryVars, limiterVars, utilVars, debounceVars, messages, isLoading, wordsLearned, userLevel,
                 recommendations, errorCount, successfulResponses, dailyStreak,
                 lastPracticeDate, conversationTopics, store, storageFull, sends, inflight,
                 rateUsed>>

\* One day of use: messages are sent, answered and cleared.
NextChat ==
  \/ SendMessage
  \/ FetchResolves /\ UNCHANGED <<limiterVars, chatVars, utilVars, debounceVars>>
  \/ FetchRejects /\ UNCHANGED <<limiterVars, chatVars, utilVars, debounceVars>>
  \/ DelayElapses /\ UNCHANGED <<limiterVars, chatVars, utilVars, debounceVars>>
  \/ Settle
  \/ ClearChat

SpecChat == Init /\ [][NextChat]_vars

\* Use across days.
NextSession ==
  \/ NextChat
  \/ DayPasses

SpecSession == Init /\ [][NextSession]_vars

\* One day of use with the debounced saves.
NextReset ==
  \/ NextChat
  \/ SaveTimersFire

SpecReset == Init /\ [][NextReset]_vars

(***************************************************************************)
(* Reload: the component is mounted again over the store the session left. *)
(***************************************************************************)
\* The items getItemSafe finds in the store the component wrote. Every key
\* holds JSON text (JSON.stringify in setItemSafe, newStreak.toString() in
\* updateDailyStreak) except the last-practice date, which updateDailyStreak
\* writes as the text of Date.toDateString(): JSON.parse rejects it.
StoredAsItems(st) ==
  [k \in DOMAIN st |->
     IF k = STORAGE_KEYS.LAST_PRACTICE THEN [parses |-> FALSE]
     ELSE [parses |-> TRUE, value |-> [name |-> "saved", falsy |-> FALSE, data |-> st[k]]]]

\* getItemSafe<T>(key) as the load effect calls it, without a default; the
\* values the component stores are truthy (a streak of 1 or more, an array, a
\* profile).
Saved(st, key) == getItemSafe(StoredAsItems(st), key, Null)

\* The page is reloaded between two sends: the state is the initial state of
\* the hooks (lines 82-95) after the load effect (lines 457-515) has run over
\* the store. The words of the loaded messages are among the saved words,
\* which are saved by the same timers.
Reload ==
  /\ inflight = NoFlight
  /\ fpc = "idle"
  /\ dailyStreak' = IF Saved(store, STORAGE_KEYS.STREAK).falsy THEN 0
                    ELSE Saved(store, STORAGE_KEYS.STREAK).data
  /\ lastPracticeDate' = IF Saved(store, STORAGE_KEYS.LAST_PRACTICE).falsy THEN -1
                         ELSE Saved(store, STORAGE_KEYS.LAST_PRACTICE).data
  /\ conversationTopics' = IF Saved(store, STORAGE_KEYS.TOPICS).falsy THEN <<>>
                           ELSE Saved(store, STORAGE_KEYS.TOPICS).data
  /\ wordsLearned' = IF Saved(store, STORAGE_KEYS.WORDS).falsy THEN {}
                     ELSE Saved(store, STORAGE_KEYS.WORDS).data
  /\ userLevel' = IF Saved(store, STORAGE_KEYS.LEVEL).falsy THEN NoProfile
                  ELSE Saved(store, STORAGE_KEYS.LEVEL).data
  /\ recommendations' = IF userLevel' = NoProfile THEN <<>>
                        ELSE generateRecommendations(userLevel')
  /\ messages' = IF Saved(store, STORAGE_KEYS.MESSAGES).falsy THEN <<"welcome">>
                 ELSE Saved(store, STORAGE_KEYS.MESSAGES).data
  /\ isLoading' = FALSE
  /\ errorCount' = 0
  /\ successfulResponses' = 0
  /\ rateUsed' = NoRate
  /\ UNCHANGED <<retryVars, limiterVars, utilVars, debounceVars, store, storageFull, today,
                 sends, inflight>>

(***************************************************************************)
(* The assessor over a longer session: every request is answered by the    *)
(* first response, so each message sent is one exchange or one failed send. *)
(***************************************************************************)
\* Replies by the number of correction markers detectErrors finds in them:
\* none, one, or more than ERROR_THRESHOLDS.HIGH_ERRORS.
AssessedReplies ==
  {[chars |-> 9, words |-> 7, punct |-> FALSE, errors |-> n, vocab |-> {}, topics |-> <<>>] :
     n \in {0, 1, HIGH_ERRORS + 1}}

AssessedBodies == {[kind |-> "reply", text |-> a] : a \in AssessedReplies} \cup {[kind |-> "error"]}

\* The user sends a message that passes validation.
SendAssessed ==
  /\ sends < MaxExchanges
  /\ \E input \in Inputs :
       /\ validateAndSanitizeMessage(input, INPUT_CONSTRAINTS.MAX_MESSAGE_LENGTH).valid
       /\ SendMessageWith(input)

\* fetch() resolves with a response fetchWithRetry returns without a wait.
FetchAnswers ==
  /\ FetchResolves
  /\ fpc' = "returned"
  /\ UNCHANGED <<limiterVars, chatVars, utilVars, debounceVars>>

SettleAssessed == \E body \in AssessedBodies : SettleWith(body)

NextAssessor ==
  \/ SendAssessed
  \/ FetchAnswers
  \/ SettleAssessed
  \/ ClearChat

SpecAssessor == Init /\ [][NextAssessor]_vars

\* Use across days and reloads, each request answered by its first response.
NextReload ==
  \/ SendAssessed
  \/ FetchAnswers
  \/ SettleAssessed
  \/ DayPasses
  \/ Reload

SpecReload == Init /\ [][NextReload]_vars

(***************************************************************************)
(* The storage utilities called directly.                                  *)
(***************************************************************************)
\* Keys of the stores the utility calls run over.
UtilKeys == {keysToCheck[1], keysToCheck[2], keysToCheck[3], STORAGE_KEYS.LEVEL}

\* Items found in those stores.
StoredItems ==
  {[parses |-> TRUE, value |-> [name |-> "list", falsy |-> FALSE]],
   [parses |-> TRUE, value |-> [name |-> "zero", falsy |-> TRUE]],
   [parses |-> FALSE]}

UtilStores == UNION {[S -> StoredItems] : S \in SUBSET UtilKeys}

\* The item setItemSafe writes: JSON.stringify(value).
NewItem == [parses |-> TRUE, value |-> [name |-> "text", falsy |-> FALSE]]

\* Serialized sizes: small, exactly the limit, one byte above it.
ValueSizes == {SmallBytes, QuotaBytes, QuotaBytes + 1}

\* setItemSafe(key, value) is called on some store.
CallSetItemSafe ==
  \E key \in UtilKeys, bytes \in ValueSizes, room \in 0..MaxRoom :
    LET r == setItemSafe(ustore, key, NewItem, bytes, room) IN
    /\ ustore' = r.store
    /\ ucall' = [fn |-> "setItemSafe", st |-> ustore, key |-> key, bytes |-> bytes,
                 room |-> room, ok |-> r.ok, after |-> r.store]

\* getItemSafe(key, defaultValue) is called on some store.
CallGetItemSafe ==
  \E key \in UtilKeys, defaultValue \in JsValues \cup {Null} :
    /\ ucall' = [fn |-> "getItemSafe", st |-> ustore, key |-> key,
                 defaultValue |-> defaultValue,
                 result |-> getItemSafe(ustore, key, defaultValue)]
    /\ UNCHANGED ustore

\* truncateMessages(messages, maxLength) is called on a list of n distinct messages.
CallTruncateMessages ==
  \E n \in 0..MaxSeqLen, maxLength \in 0..(MaxSeqLen + 1) :
    LET msgs == [i \in 1..n |-> i] IN
    /\ ucall' = [fn |-> "truncateMessages", msgs |-> msgs, maxLength |-> maxLength,
                 result |-> truncateMessages(msgs, maxLength)]
    /\ UNCHANGED ustore

NextUtil ==
  \/ CallSetItemSafe /\ UNCHANGED <<retryVars, limiterVars, chatVars, debounceVars>>
  \/ CallGetItemSafe /\ UNCHANGED <<retryVars, limiterVars, chatVars, debounceVars>>
  \/ CallTruncateMessages /\ UNCHANGED <<retryVars, limiterVars, chatVars, debounceVars>>

\* The page is opened over whatever an earlier visit left in the store.
InitStored ==
  /\ InitRetry /\ InitLimiter /\ InitChat
  /\ store = <<>> /\ ~storageFull
  /\ ustore \in UtilStores
  /\ ucall = NoUCall
  /\ InitDebounce

SpecUtil == InitStored /\ [][NextUtil]_vars

(***************************************************************************)
(* trackConversationTopics called on a sequence of texts.                  *)
(***************************************************************************)
\* The head of topicKeywords (lines 786-795), without the non-ASCII entries.
topicKeywords ==
  <<"food", "restaurant", "eat", "shopping", "buy", "store", "family", "parents",
    "children", "work">>

Keywords == SubSeq(topicKeywords, 1, MaxKeywords)

\* A text is given by the set of keywords it includes; detectedTopics is the
\* keyword list filtered by inclusion (lines 797-799).
detectedTopics(content) == SelectSeq(Keywords, LAMBDA k : k \in content)

\* trackConversationTopics(content), lines 785-808
TrackConversationTopicsWith(content) ==
  LET text == [topics |-> detectedTopics(content)] IN
  /\ conversationTopics' = TopicsAfter(text, conversationTopics)
  /\ store' = TopicsStoreAfter(text, conversationTopics, store, storageFull)
  /\ UNCHANGED <<retryVars, limiterVars, utilVars, debounceVars, messages, isLoading,
                 wordsLearned, userLevel, recommendations, errorCount, successfulResponses,
                 dailyStreak, lastPracticeDate, storageFull, today, sends, inflight,
                 rateUsed>>

\* The texts observed: with no keyword, one, the first two, or all of them.
KeywordSet == {Keywords[i] : i \in DOMAIN Keywords}
Contents ==
  {{}} \cup {{k} : k \in KeywordSet} \cup {{Keywords[1], Keywords[2]}, KeywordSet}

TrackConversationTopics ==
  \E content \in Contents : TrackConversationTopicsWith(content)

NextTopics == TrackConversationTopics

\* A first visit: nothing is stored yet.
InitTopics == Init /\ store = <<>>

SpecTopics == InitTopics /\ [][NextTopics]_vars

(***************************************************************************)
(* The functions of the endpoint and of the assessor applied to inputs     *)
(* drawn at the start: ucall holds the call, then the call and its result. *)
(***************************************************************************)
\* A local history of n entries; entry i is the i-th oldest.
History(n) == [i \in 1..n |-> i]

\* The entry that stands for the message being sent.
CurrentMessage == 0

PostCalls ==
  {[fn |-> "POST", done |-> FALSE, local |-> History(n), message |-> CurrentMessage] :
     n \in 0..MaxHistory}

\* The values of UserLevel['level'] and of the HSK constants.
Levels == {"beginner", "elementary", "intermediate", "advanced"}
HskLevels == {1, 2, 3, 5}
Weaknesses == {"Grammar accuracy", "Overall fluency", "Limited vocabulary"}

\* Profiles as updateUserLevel builds them or as the mount effect loads them.
Profiles ==
  {[level |-> l, hskLevel |-> h, confidence |-> 5, strengths |-> {}, weaknesses |-> w,
    lastAssessed |-> 0] : l \in Levels, h \in HskLevels, w \in SUBSET Weaknesses}

RecommendCalls ==
  {[fn |-> "generateRecommendations", done |-> FALSE, profile |-> p] : p \in Profiles}

\* Texts by what calculateComplexity reads; the empty string has no
\* character, one word (''.split(/\s+/) is ['']) and no punctuation.
ComplexityTexts ==
  {[chars |-> c, words |-> w, punct |-> p] : c \in 0..MaxChars, w \in {1, 10, 11}, p \in BOOLEAN}

ComplexityCalls ==
  {[fn |-> "calculateComplexity", done |-> FALSE, text |-> t] : t \in ComplexityTexts}

\* updateUserLevel(complexity, errors) under every closure: the counters, the
\* vocabulary size, a complexity some text has, the markers of a reply.
LevelCalls ==
  {[fn |-> "updateUserLevel", done |-> FALSE, successfulResponses |-> s, errorCount |-> e,
    vocab |-> v, complexity |-> c, errors |-> x] :
     s \in 0..MaxCount, e \in 0..MaxCount, v \in {0, VOCAB_GROWING + 1},
     c \in {calculateComplexity(t) : t \in ComplexityTexts}, x \in {0, HIGH_ERRORS + 1}}

\* Messages typed into the input field, by what validation and sanitization
\* read: the lengths before and after trim(), whether a suspicious pattern
\* matches, the number of '&' characters and the number of characters inside
\* tags such as <b> that match none of the suspicious patterns.
TypedLengths ==
  {0, 1, 3, INPUT_CONSTRAINTS.MAX_MESSAGE_LENGTH - 1, INPUT_CONSTRAINTS.MAX_MESSAGE_LENGTH,
   INPUT_CONSTRAINTS.MAX_MESSAGE_LENGTH + 1}

TagLengths == {0, Len(<<"<", "b", ">">>)}

TypedMessages ==
  {m \in [rawLen : TypedLengths, trimmedLen : TypedLengths, suspicious : BOOLEAN,
          amps : 0..MaxEscaped, tagChars : TagLengths] :
     /\ m.rawLen = m.trimmedLen
     /\ m.amps + m.tagChars <= m.trimmedLen}

SanitizeCalls ==
  {[fn |-> "validateAndSanitizeMessage", done |-> FALSE, message |-> m] : m \in TypedMessages}

PendingCalls ==
  PostCalls \cup RecommendCalls \cup ComplexityCalls \cup LevelCalls \cup SanitizeCalls

\* sendMessage posts its body and POST forwards it upstream.
ApplyPost ==
  /\ ucall.fn = "POST" /\ ~ucall.done
  /\ LET body == RequestBody(ucall.local, ucall.message) IN
     ucall' = [fn |-> "POST", done |-> TRUE, local |-> ucall.local,
               message |-> ucall.message, sent |-> body.messages,
               forwarded |-> PostForward(body)]
  /\ UNCHANGED ustore

\* generateRecommendations(level) is called.
ApplyGenerateRecommendations ==
  /\ ucall.fn = "generateRecommendations" /\ ~ucall.done
  /\ ucall' = [fn |-> "generateRecommendations", done |-> TRUE, profile |-> ucall.profile,
               result |-> generateRecommendations(ucall.profile)]
  /\ UNCHANGED ustore

\* calculateComplexity(text) is called.
ApplyCalculateComplexity ==
  /\ ucall.fn = "calculateComplexity" /\ ~ucall.done
  /\ ucall' = [fn |-> "calculateComplexity", done |-> TRUE, text |-> ucall.text,
               result |-> calculateComplexity(ucall.text)]
  /\ UNCHANGED ustore

\* updateUserLevel(complexity, errors) is called.
ApplyUpdateUserLevel ==
  /\ ucall.fn = "updateUserLevel" /\ ~ucall.done
  /\ ucall' = [ucall EXCEPT !.done = TRUE] @@
               [result |-> updateUserLevel(ucall.successfulResponses, ucall.errorCount,
                                           ucall.vocab, ucall.complexity, ucall.errors, 0)]
  /\ UNCHANGED ustore

\* sendMessage validates the input (line 569) and takes validation.sanitized
\* as the message of the request (lines 582, 604).
ApplyValidateAndSanitize ==
  /\ ucall.fn = "validateAndSanitizeMessage" /\ ~ucall.done
  /\ LET validation == validateAndSanitizeMessage(ucall.message,
                                                  INPUT_CONSTRAINTS.MAX_MESSAGE_LENGTH)
     IN ucall' = [fn |-> "validateAndSanitizeMessage", done |-> TRUE,
                  message |-> ucall.message, valid |-> validation.valid,
                  sanitized |-> IF validation.valid THEN sanitizeInput(ucall.message) ELSE 0]
  /\ UNCHANGED ustore

NextFunctions ==
  \/ ApplyValidateAndSanitize /\ UNCHANGED <<retryVars, limiterVars, chatVars, debounceVars>>
  \/ ApplyPost /\ UNCHANGED <<retryVars, limiterVars, chatVars, debounceVars>>
  \/ ApplyCalculateComplexity /\ UNCHANGED <<retryVars, limiterVars, chatVars, debounceVars>>
  \/ ApplyUpdateUserLevel /\ UNCHANGED <<retryVars, limiterVars, chatVars, debounceVars>>
  \/ ApplyGenerateRecommendations /\ UNCHANGED <<retryVars, limiterVars, chatVars, debounceVars>>

InitFunctions ==
  /\ InitRetry /\ InitLimiter /\ InitChat /\ InitDebounce
  /\ store = <<>> /\ ~storageFull
  /\ ustore = <<>>
  /\ ucall \in PendingCalls

SpecFunctions == InitFunctions /\ [][NextFunctions]_vars

(***************************************************************************)
(* debounce: a wrapper made by debounce(func, WaitTicks) over a clock.     *)
(* A timer that is due runs before the clock advances and before any       *)
(* call made at that instant.                                              *)
(***************************************************************************)
TimerDue == timeout # NoTimer /\ timeout.due <= clock

\* The wrapper is called; the k-th call passes k as its argument.
DebouncedCall ==
  /\ Len(calls) < MaxCalls
  /\ clock + WaitTicks <= MaxClock
  /\ ~TimerDue
  /\ timeout' = executedFunction(timeout, Len(calls) + 1, WaitTicks, clock)
  /\ calls' = Append(calls, [at |-> clock, args |-> Len(calls) + 1])
  /\ UNCHANGED <<clock, invocations>>

\* later() of the pending timer runs (lines 84-87).
TimerFires ==
  /\ TimerDue
  /\ timeout' = NoTimer
  /\ invocations' = Append(invocations,
                           [at |-> clock, args |-> timeout.args, n |-> Len(calls)])
  /\ UNCHANGED <<clock, calls>>

ClockTick ==
  /\ clock < MaxClock
  /\ ~TimerDue
  /\ clock' = clock + 1
  /\ UNCHANGED <<timeout, calls, invocations>>

NextDebounce ==
  \/ DebouncedCall /\ UNCHANGED <<retryVars, limiterVars, chatVars, utilVars>>
  \/ TimerFires /\ UNCHANGED <<retryVars, limiterVars, chatVars, utilVars>>
  \/ ClockTick /\ UNCHANGED <<retryVars, limiterVars, chatVars, utilVars>>

SpecDebounce == Init /\ [][NextDebounce]_vars

\* Time passes and a due timer runs.
FairSpecDebounce ==
  /\ SpecDebounce
  /\ WF_vars(TimerFires /\ UNCHANGED <<retryVars, limiterVars, chatVars, utilVars>>)
  /\ WF_vars(ClockTick /\ UNCHANGED <<retryVars, limiterVars, chatVars, utilVars>>)

\* Fairness the event loop gives: a pending fetch() settles and a pending
\* timer fires ("provided every individual network attempt completes").
\* Sends that pass validation, each followed to its end.
SendValid ==
  /\ sends < MaxSends
  /\ \E input \in Inputs :
       /\ validateAndSanitizeMessage(input, INPUT_CONSTRAINTS.MAX_MESSAGE_LENGTH).valid
       /\ SendMessageWith(input)

NextBusy ==
  \/ SendValid
  \/ FetchResolves /\ UNCHANGED <<limiterVars, chatVars, utilVars, debounceVars>>
  \/ FetchRejects /\ UNCHANGED <<limiterVars, chatVars, utilVars, debounceVars>>
  \/ DelayElapses /\ UNCHANGED <<limiterVars, chatVars, utilVars, debounceVars>>
  \/ Settle

SpecBusy == Init /\ [][NextBusy]_vars

\* sendMessage under fair scheduling: every fetch() completes, every delay
\* timer fires, and the continuation of the await runs once fetchWithRetry
\* has returned or thrown.
FairSpecBusy ==
  /\ SpecBusy
  /\ WF_vars((FetchResolves \/ FetchRejects) /\ UNCHANGED <<limiterVars, chatVars, utilVars, debounceVars>>)
  /\ WF_vars(DelayElapses /\ UNCHANGED <<limiterVars, chatVars, utilVars, debounceVars>>)
  /\ WF_vars(Settle)

FairSpecRetry ==
  /\ SpecRetry
  /\ WF_vars((FetchResolves \/ FetchRejects) /\ UNCHANGED <<limiterVars, chatVars, utilVars, debounceVars>>)
  /\ WF_vars(DelayElapses /\ UNCHANGED <<limiterVars, chatVars, utilVars, debounceVars>>)

(***************************************************************************)
(* Claims about the transport.                                             *)
(***************************************************************************)
IsResponse(x) == x.kind = "response"

\* a response that makes fetchWithRetry go on: not ok and listed as retryable
RetryableResponse(x) ==
  IsResponse(x) /\ ~ResponseOk(x.status) /\ x.status \in config.retryableStatusCodes

\* C4 (as stated): for every option combination the k-th wait is
\* min(initialDelay * backoffMultiplier^(k-1), maxDelay), so no wait exceeds
\* maxDelay.
C4_WaitIsCappedExponential ==
  \A k \in 1..Len(waitLog) :
    /\ waitLog[k] = Min(config.initialDelay * Pow(config.backoffMultiplier, k - 1), config.maxDelay)
    /\ waitLog[k] <= config.maxDelay

\* C5: a response that is ok or whose status is not retryable ends the call
\* at once - it is the last attempt, it is returned as produced and no wait
\* follows it; a wait is entered only after a retryable status or a rejection.
C5_NonRetryableEndsAtOnce ==
  /\ \A i \in 1..Len(attemptLog) :
       (IsResponse(attemptLog[i]) /\ ~RetryableResponse(attemptLog[i]))
         => /\ i = Len(attemptLog)
            /\ fpc = "returned"
            /\ outcome = attemptLog[i]
            /\ Len(waitLog) = i - 1
  /\ fpc = "waiting" =>
       /\ Len(waitLog) = Len(attemptLog)
       /\ (RetryableResponse(Last(attemptLog)) \/ ~IsResponse(Last(attemptLog)))

\* C5 witness: a non-ok, non-retryable response was returned as-is after an
\* earlier retry.
C5_Witness ==
  /\ fpc = "returned"
  /\ Len(attemptLog) = 2
  /\ outcome.status = 400
  /\ Len(waitLog) = 1

\* C6 (as stated): when the call ends, what it delivers is exactly what the
\* last attempt produced - the same response returned, the same error thrown.
C6_DeliversLastAttempt ==
  Terminal =>
    /\ outcome = Last(attemptLog)
    /\ (fpc = "returned") = IsResponse(Last(attemptLog))

\* C6 (amended): a response of the last attempt is returned unchanged and an
\* Error it threw is rethrown unchanged; a thrown value that is not an Error
\* is replaced by a new Error('Unknown error').
C6_DeliversLastAttemptOrWrapped ==
  Terminal =>
    LET last == Last(attemptLog) IN
    /\ IsResponse(last) => fpc = "returned" /\ outcome = last
    /\ last.kind = "Error" => fpc = "thrown" /\ outcome = last
    /\ last.kind = "value" =>
         fpc = "thrown" /\ outcome = [kind |-> "Error", message |-> "Unknown error"]

\* C6 witness: every attempt failed (a retryable status, a thrown Error, a
\* thrown non-Error value) and the retries are exhausted.
C6_Witness ==
  /\ fpc = "thrown"
  /\ config.maxRetries = 2
  /\ Len(attemptLog) = 3
  /\ RetryableResponse(attemptLog[1])
  /\ attemptLog[2].kind = "Error"
  /\ attemptLog[3].kind = "value"
  /\ outcome = [kind |-> "Error", message |-> "Unknown error"]

\* C7: at most maxRetries + 1 attempts and maxRetries waits, and a started
\* call reaches a terminal state.
C7_BoundedAndTerminates ==
  /\ [](/\ Len(attemptLog) <= config.maxRetries + 1
        /\ Len(waitLog) <= config.maxRetries
        /\ attempt <= config.maxRetries)
  /\ (fpc \in {"sending", "waiting"}) ~> Terminal

\* C7 witness: a call that used all its attempts and all its waits.
C7_Witness ==
  /\ Terminal
  /\ config.maxRetries = 3
  /\ Len(attemptLog) = 4
  /\ Len(waitLog) = 3

(***************************************************************************)
(* Claims about the rate limiter.                                          *)
(***************************************************************************)
\* C8: the call that creates or resets a key's record and the next
\* maxRequests - 1 calls made before the window has elapsed return true, every
\* further call before the window has elapsed returns false, and the first
\* call after the window has elapsed returns true and resets the record to
\* count 1 and windowResetAt = now + windowMs. (The window has elapsed once
\* now > windowResetAt.)
C8_WindowAdmitsMaxThenDenies ==
  lastCall # NoCall =>
    LET k == lastCall.key IN
    /\ k \in DOMAIN rateLimitMap
    /\ IF lastCall.fresh
         THEN /\ lastCall.allowed
              /\ rateLimitMap[k] = [count |-> 1, resetTime |-> lastCall.at + WINDOW_MS]
         ELSE /\ lastCall.allowed = (gCalls[k] <= MAX_REQUESTS)
              /\ rateLimitMap[k].resetTime = gStart[k] + WINDOW_MS

\* C8 witness: the 21st call inside a window that started earlier is denied.
C8_Witness ==
  /\ lastCall.key = "ip1"
  /\ ~lastCall.allowed
  /\ gCalls["ip1"] = 21
  /\ lastCall.at > gStart["ip1"]

\* C9 (as stated): a sliding window - in every rolling interval of length
\* windowMs at most maxRequests calls of a key are admitted. (The rolling
\* count is kept for the key Driven; any other key receives fewer than
\* maxRequests calls.)
C9_SlidingWindowBound ==
  SumSeq(recent) <= MAX_REQUESTS

\* C9 (amended): a fixed window - at most maxRequests calls of a key are
\* admitted per stored window, and at most 2 * maxRequests - 1 in a rolling
\* interval of length windowMs.
C9_FixedWindowBound ==
  /\ \A k \in Keys : gAdmits[k] <= MAX_REQUESTS
  /\ SumSeq(recent) <= 2 * MAX_REQUESTS - 1

\* C9 witness: a rolling interval that straddles two stored windows and holds
\* more admitted calls than maxRequests.
C9_Witness ==
  /\ SumSeq(recent) = 2 * MAX_REQUESTS - 1
  /\ gAdmits["ip1"] = MAX_REQUESTS

\* C10: whatever headers a client supplies, no more than maxRequests of its
\* requests are admitted within a window (here: at one single instant, which
\* lies inside one window however windows are counted).
C10_ClientCannotBypass ==
  \A c \in Clients : clientAdmits[c] <= MAX_REQUESTS

(***************************************************************************)
(* Claims about the chat orchestrator.                                     *)
(***************************************************************************)
Is429(x) == IsResponse(x) /\ x.status = 429

\* The waits sendMessage's options lead to: 1000 ms doubled after each wait.
SendWaits == <<1000, 2000, 4000>>

\* C1 (as stated): a 429 answer to a send is surfaced without a retry - it
\* answers the only request of that send and no retry wait occurs.
C1_No429Retry ==
  \A i \in 1..Len(attemptLog) :
    Is429(attemptLog[i]) =>
      /\ Len(attemptLog) = 1
      /\ waitLog = <<>>
      /\ fpc = "returned"

\* C1 (amended): 429 is one of the statuses sendMessage asks to be retried.
\* Each of the first three 429 answers of a send is followed by a wait (1000,
\* 2000, 4000 ms) and another request; only a 429 answer to the fourth
\* request ends the send, and then the failure is surfaced: the "unavailable"
\* message is appended, loading ends, and the counters and the profile are
\* left alone.
C1_429RetriedThenSurfaced ==
  /\ [](/\ Len(waitLog) <= Len(SendWaits)
        /\ \A k \in 1..Len(waitLog) : waitLog[k] = SendWaits[k]
        /\ \A i \in 1..Len(attemptLog) :
             Is429(attemptLog[i]) =>
               IF i <= API_CONFIG.RETRY_ATTEMPTS
                 THEN Len(waitLog) >= i
                 ELSE /\ i = API_CONFIG.RETRY_ATTEMPTS + 1
                      /\ i = Len(attemptLog)
                      /\ fpc = "returned"
                      /\ outcome = attemptLog[i]
                      /\ waitLog = SendWaits)
  /\ [][(fpc = "returned" /\ outcome.status = 429 /\ inflight # NoFlight /\ inflight' = NoFlight)
          => /\ Len(attemptLog) = API_CONFIG.RETRY_ATTEMPTS + 1
             /\ messages' = Append(messages, "unavailable")
             /\ isLoading' = FALSE
             /\ UNCHANGED <<successfulResponses, errorCount, userLevel, wordsLearned>>]_vars

\* C1 witness: a send whose four requests were all answered 429, with the
\* three waits between them, about to be surfaced.
C1_Witness ==
  /\ inflight # NoFlight
  /\ fpc = "returned"
  /\ Len(attemptLog) = 4
  /\ \A i \in 1..4 : Is429(attemptLog[i])
  /\ waitLog = SendWaits

\* C2 (as stated): starting from zero counters, once three successful
\* exchanges (target-script user text, no error signal in the reply) have
\* been counted, a profile has been computed, with successRate 3/3.
C2_ThirdExchangeProducesProfile ==
  (successfulResponses = 3 /\ errorCount = 0) => rateUsed = <<3, 3>>

\* C3: a step after which successCount + errorCount is below 3 leaves the
\* profile, the persisted profile key and the recommendation list unchanged.
C3_NoProfileChangeBelowMinimum ==
  [][successfulResponses' + errorCount' < MIN_INTERACTIONS
       => /\ userLevel' = userLevel
          /\ (STORAGE_KEYS.LEVEL \in DOMAIN store') = (STORAGE_KEYS.LEVEL \in DOMAIN store)
          /\ (STORAGE_KEYS.LEVEL \in DOMAIN store
                => store'[STORAGE_KEYS.LEVEL] = store[STORAGE_KEYS.LEVEL])
          /\ recommendations' = recommendations]_vars

\* C3 witness: two exchanges have been counted, one of each kind, over a
\* profile and a recommendation list loaded at mount.
C3_Witness ==
  /\ successfulResponses = 1
  /\ errorCount = 1
  /\ inflight = NoFlight
  /\ userLevel \in SavedProfiles
  /\ STORAGE_KEYS.LEVEL \in DOMAIN store
  /\ recommendations # <<>>

(***************************************************************************)
(* Claims about the endpoint.                                              *)
(***************************************************************************)
\* C11: a request the gate denies is answered 429 and reaches no upstream
\* call; an upstream call is made only for a request the gate admitted.
C11_GateBeforeUpstream ==
  lastPost # NoPost =>
    /\ lastPost.allowed = lastCall.allowed
    /\ ~lastPost.allowed => (lastPost.status = 429 /\ lastPost.upstream = 0)
    /\ lastPost.upstream > 0 => lastPost.allowed
    /\ lastPost.status = 429 => ~lastPost.allowed

\* C11 witness: the request after the ceiling was denied with 429 and no
\* upstream call, after earlier requests of the window went upstream.
C11_Witness ==
  /\ lastPost # NoPost
  /\ ~lastPost.allowed
  /\ lastPost.status = 429
  /\ lastPost.upstream = 0
  /\ gAdmits[lastCall.key] = MAX_REQUESTS

(***************************************************************************)
(* Claims about the storage utilities.                                     *)
(***************************************************************************)
\* The first tracked key, in the order of keysToCheck, that is in the store
\* (0 when none is).
FirstTrackedIn(st) ==
  IF \E i \in 1..Len(keysToCheck) : keysToCheck[i] \in DOMAIN st
    THEN CHOOSE i \in 1..Len(keysToCheck) :
           /\ keysToCheck[i] \in DOMAIN st
           /\ \A j \in 1..(i - 1) : keysToCheck[j] \notin DOMAIN st
    ELSE 0

\* C12 (as stated): when the write fails on the quota, setItemSafe evicts
\* exactly one tracked key - the first of history, topics, vocabulary that is
\* in the store - retries the write once, and returns true exactly when the
\* retry succeeds.
C12_EvictsByPriority ==
  (/\ ucall.fn = "setItemSafe"
   /\ ucall.bytes <= QuotaBytes
   /\ ~SetItemAccepted(ucall.st, ucall.key, ucall.room)) =>
    LET i == FirstTrackedIn(ucall.st)
        evicted == IF i = 0 THEN ucall.st ELSE StoreRemove(ucall.st, keysToCheck[i])
    IN /\ ucall.ok = SetItemAccepted(evicted, ucall.key, ucall.room)
       /\ ucall.after = IF ucall.ok THEN StorePut(evicted, ucall.key, NewItem) ELSE evicted

\* C13: a value whose serialized size exceeds the 5 MB limit is refused:
\* setItemSafe returns false and the store is exactly as before.
C13_OversizedRefused ==
  (ucall.fn = "setItemSafe" /\ ucall.bytes > QuotaBytes) =>
    (~ucall.ok /\ ucall.after = ucall.st)

\* C13 witness: an oversized value offered to a browser without room, over a
\* store that holds the history key and not the key written.
C13_Witness ==
  /\ ucall.fn = "setItemSafe"
  /\ ucall.bytes = QuotaBytes + 1
  /\ ucall.room = 0
  /\ keysToCheck[1] \in DOMAIN ucall.st
  /\ ucall.key \notin DOMAIN ucall.st
  /\ ~ucall.ok
  /\ ucall.after = ucall.st

\* C14 (as stated): getItemSafe returns the parsed stored value when the key
\* holds parseable content and exactly the supplied default otherwise, also
\* for a falsy default.
C14_ReturnsValueOrDefault ==
  ucall.fn = "getItemSafe" =>
    ucall.result =
      IF ucall.key \in DOMAIN ucall.st /\ ucall.st[ucall.key].parses
        THEN ucall.st[ucall.key].value
        ELSE ucall.defaultValue

\* C16 (as stated): truncateMessages(s, max) is the last min(|s|, max)
\* elements of s in their order, for every max >= 0.
C16_KeepsLastMax ==
  ucall.fn = "truncateMessages" =>
    LET keep == Min(Len(ucall.msgs), ucall.maxLength) IN
    /\ Len(ucall.result) = keep
    /\ ucall.result = SubSeq(ucall.msgs, Len(ucall.msgs) - keep + 1, Len(ucall.msgs))

(***************************************************************************)
(* Claims about debounce.                                                  *)
(***************************************************************************)
\* Call i is the last of its burst: no call follows it within the wait.
IsBurstEnd(i) == i = Len(calls) \/ calls[i + 1].at - calls[i].at >= WaitTicks

\* The invocations of func made after call i and before call i + 1.
InvocationsFor(i) == {k \in DOMAIN invocations : invocations[k].n = i}

\* What holds of the invocations at every moment.
C15_InvocationsOfBursts ==
  \A i \in DOMAIN calls :
    IF IsBurstEnd(i)
      THEN /\ Cardinality(InvocationsFor(i)) <= 1
           /\ (i < Len(calls) \/ timeout = NoTimer) => Cardinality(InvocationsFor(i)) = 1
           /\ \A k \in InvocationsFor(i) :
                /\ invocations[k].args = calls[i].args
                /\ invocations[k].at >= calls[i].at + WaitTicks
      ELSE InvocationsFor(i) = {}

\* C15: for every burst of calls, each within the wait of the previous one,
\* func is invoked exactly once, with the arguments of the burst's last call
\* and not before the wait has passed since that call; it is invoked for no
\* earlier call of the burst, and the invocation does come.
C15_BurstInvokedOnce ==
  /\ []C15_InvocationsOfBursts
  /\ [](timeout # NoTimer => <>(timeout = NoTimer))

\* C15 witness: a burst of three calls on two different ticks has been
\* answered by its one invocation.
C15_Witness ==
  /\ Len(calls) = 3
  /\ \A i \in 1..2 : ~IsBurstEnd(i)
  /\ calls[1].at < calls[3].at
  /\ Len(invocations) = 1
  /\ invocations[1].args = 3

(***************************************************************************)
(* Claims about sending and resetting.                                     *)
(***************************************************************************)
\* C17 (as stated): when storage rejects every write, a send whose reply
\* arrives still appends the reply, shows no error message and clears the
\* busy flag.
C17_StorageFailureSilent ==
  [][\A body \in Bodies :
       (/\ storageFull
        /\ body.kind = "reply"
        /\ fpc = "returned"
        /\ ResponseOk(outcome.status)
        /\ SettleWith(body))
       => (messages' = Append(messages, "ai") /\ ~isLoading')]_vars

\* C18: at most one exchange is in flight: while the busy flag is set a send
\* changes nothing and starts no request, and the flag is set exactly while
\* an exchange is outstanding.
C18_OneExchangeInFlight ==
  /\ [](isLoading <=> inflight # NoFlight)
  /\ [][isLoading =>
          /\ sends' = sends
          /\ inflight' \in {inflight, NoFlight}
          /\ \A input \in Inputs :
               (sends < MaxSends /\ SendMessageWith(input)) => UNCHANGED vars]_vars

\* C18 witness: an exchange is in a retry wait and the user may send again.
C18_Witness ==
  /\ isLoading
  /\ fpc = "waiting"
  /\ sends < MaxSends

\* What a rejected send may do: no request, no retry sequence, no busy flag,
\* at most one inline message.
RejectedQuietly ==
  /\ UNCHANGED retryVars
  /\ isLoading' = isLoading
  /\ inflight' = inflight
  /\ messages' = messages \/ messages' = Append(messages, "invalid")

\* C19 (as stated): input that is empty, longer than the maximum length, or
\* suspicious is rejected before any network call.
C19_LongInputRejected ==
  [][\A input \in Inputs :
       (/\ \/ input.trimmedLen = 0
           \/ input.rawLen > INPUT_CONSTRAINTS.MAX_MESSAGE_LENGTH
           \/ input.suspicious
        /\ sends < MaxSends
        /\ SendMessageWith(input))
       => RejectedQuietly]_vars

\* C19 (amended): input that is empty once trimmed, longer than the maximum
\* length once trimmed, or suspicious is rejected before any network call.
C19_InvalidInputRejected ==
  [][\A input \in Inputs :
       (/\ \/ input.trimmedLen = 0
           \/ input.trimmedLen > INPUT_CONSTRAINTS.MAX_MESSAGE_LENGTH
           \/ input.suspicious
        /\ sends < MaxSends
        /\ SendMessageWith(input))
       => RejectedQuietly]_vars

\* C19 witness: the first send was rejected with an inline message and the
\* transport was never entered.
C19_Witness ==
  /\ sends = 1
  /\ messages = <<"welcome", "invalid">>
  /\ ~isLoading
  /\ fpc = "idle"
  /\ inflight = NoFlight

\* The keys a reset has to leave alone.
KeptKeys == {STORAGE_KEYS.WORDS, STORAGE_KEYS.STREAK, STORAGE_KEYS.LAST_PRACTICE}

C21_ForwardsRecentHistory ==
  (ucall.fn = "POST" /\ ucall.done) =>
    LET n == Len(ucall.local)
        keep == Min(n, 20)
    IN /\ ucall.sent = ucall.local
       /\ Len(ucall.forwarded) = keep + 1
       /\ \A i \in 1..keep : ucall.forwarded[i] = ucall.local[n - keep + i]
       /\ ucall.forwarded[keep + 1] = ucall.message

\* C21 witness: a history of more than 20 entries was sent and its oldest
\* entry was not forwarded.
C21_Witness ==
  /\ ucall.fn = "POST" /\ ucall.done
  /\ Len(ucall.local) > 20
  /\ Len(ucall.forwarded) = 21
  /\ \A i \in DOMAIN ucall.forwarded : ucall.forwarded[i] # ucall.local[1]

\* The ids of the catalog items of a tier, in catalog order.
CatalogIds(level) ==
  CASE level = "beginner" -> <<"1", "2">>
    [] level = "elementary" -> <<"3">>
    [] level = "intermediate" -> <<"4">>
    [] level = "advanced" -> <<>>

\* C22: recommend(profile) is the catalog items of the profile's tier (2, 1,
\* 1, 0 of them) followed by one grammar recommendation, whose difficulty is
\* the profile's standardizedLevel, exactly when 'Grammar accuracy' is among
\* the weaknesses.
C22_RecommendIsCatalogThenGrammar ==
  (ucall.fn = "generateRecommendations" /\ ucall.done) =>
    LET p == ucall.profile
        r == ucall.result
        c == CatalogIds(p.level)
        g == "Grammar accuracy" \in p.weaknesses
    IN /\ Len(r) = Len(c) + (IF g THEN 1 ELSE 0)
       /\ \A i \in 1..Len(c) : r[i].id = c[i]
       /\ g => r[Len(r)] = [id |-> "grammar-1", difficulty |-> p.hskLevel]
       /\ \A i \in 1..Len(r) : r[i].id = "grammar-1" => (g /\ i = Len(r))

\* C22 witness: a beginner profile with the grammar weakness got its two
\* catalog items and then the grammar recommendation.
C22_Witness ==
  /\ ucall.fn = "generateRecommendations" /\ ucall.done
  /\ ucall.profile.level = "beginner"
  /\ ucall.profile.hskLevel = 1
  /\ "Grammar accuracy" \in ucall.profile.weaknesses
  /\ Len(ucall.result) = 3
  /\ ucall.result[3].id = "grammar-1"

(***************************************************************************)
(* Claims about the topic tracker.                                         *)
(***************************************************************************)
\* The topics of prev that a text with the detected keywords d did not match.
Unmatched(prev, d) == SelectSeq(prev, LAMBDA x : \A i \in DOMAIN d : d[i] # x)

\* C23: the topic sequence has at most 5 entries and no duplicates; an
\* observe that matches keywords puts them before the topics retained from
\* earlier calls and drops entries only from the old end; an observe that
\* matches nothing changes neither the sequence nor the store.
C23_TopicsRecentFirst ==
  /\ [](/\ Len(conversationTopics) <= 5
        /\ \A i, j \in DOMAIN conversationTopics :
             conversationTopics[i] = conversationTopics[j] => i = j)
  /\ [][\A content \in Contents :
          TrackConversationTopicsWith(content) =>
            LET d == detectedTopics(content)
                all == d \o Unmatched(conversationTopics, d)
            IN IF d = <<>>
                 THEN conversationTopics' = conversationTopics /\ store' = store
                 ELSE conversationTopics' = SubSeq(all, 1, Min(5, Len(all)))]_vars

\* C23 witness: five topics are held and stored, the newest of them the last
\* keyword of the list, so four were retained from earlier calls.
C23_Witness ==
  /\ Len(conversationTopics) = 5
  /\ conversationTopics[1] = Keywords[MaxKeywords]
  /\ STORAGE_KEYS.TOPICS \in DOMAIN store
  /\ store[STORAGE_KEYS.TOPICS] = conversationTopics

\* The tiers from the lowest, with the success rate (tenths) and the
\* complexity (fifths of a point) a profile has to exceed, and the fixed
\* standardizedLevel and confidence (tenths).
TierTable ==
  <<[level |-> "beginner", rate |-> -1, complexity |-> -1, hskLevel |-> 1, confidence |-> 5],
    [level |-> "elementary", rate |-> 4, complexity |-> 2 * 5, hskLevel |-> 2, confidence |-> 7],
    [level |-> "intermediate", rate |-> 6, complexity |-> 4 * 5, hskLevel |-> 3, confidence |-> 8],
    [level |-> "advanced", rate |-> 8, complexity |-> 6 * 5, hskLevel |-> 5, confidence |-> 9]>>

\* Whether s successes out of t exchanges and the complexity exceed tier k's
\* thresholds (the rate is 0 when t = 0).
ExceedsTier(k, s, t, complexity) ==
  /\ (IF t > 0 THEN s * 10 ELSE 0) > TierTable[k].rate * (IF t > 0 THEN t ELSE 1)
  /\ complexity > TierTable[k].complexity

\* C24: a produced profile has the highest tier whose two thresholds the
\* success rate and the message's complexity exceed, else beginner, with the
\* fixed standardizedLevel and confidence of that tier.
C24_TierIsHighestExceeded ==
  (ucall.fn = "updateUserLevel" /\ ucall.done /\ ucall.result # NoProfile) =>
    LET s == ucall.successfulResponses
        t == ucall.successfulResponses + ucall.errorCount
        k == CHOOSE i \in DOMAIN TierTable :
               /\ ExceedsTier(i, s, t, ucall.complexity)
               /\ \A j \in DOMAIN TierTable : ExceedsTier(j, s, t, ucall.complexity) => j <= i
    IN /\ ucall.result.level = TierTable[k].level
       /\ ucall.result.hskLevel = TierTable[k].hskLevel
       /\ ucall.result.confidence = TierTable[k].confidence

\* C24 witness: with every exchange a success and a complexity of 5 the
\* profile is intermediate, (3, 0.8).
C24_Witness ==
  /\ ucall.fn = "updateUserLevel" /\ ucall.done
  /\ ucall.successfulResponses = MaxCount /\ ucall.errorCount = 0
  /\ ucall.complexity = 25
  /\ ucall.result # NoProfile
  /\ ucall.result.level = "intermediate"
  /\ ucall.result.hskLevel = 3 /\ ucall.result.confidence = 8

\* The highest complexity any text has.
MostComplex ==
  CHOOSE c \in {calculateComplexity(t) : t \in ComplexityTexts} :
    \A t \in ComplexityTexts : calculateComplexity(t) <= c

\* C25 (as stated): the advanced tier is reachable: some message is complex
\* enough that with a success rate of 1.0 the profile produced is advanced,
\* standardizedLevel 5, confidence 0.9. If any message is, the most complex
\* one is.
C25_AdvancedIsProduced ==
  (/\ ucall.fn = "updateUserLevel" /\ ucall.done
   /\ ucall.errorCount = 0
   /\ ucall.successfulResponses >= MIN_INTERACTIONS
   /\ ucall.complexity = MostComplex) =>
    /\ ucall.result.level = "advanced"
    /\ ucall.result.hskLevel = 5
    /\ ucall.result.confidence = 9

\* C26: complexity(text) = min(chars / 5, 3) + (1 if words > 10)
\* + (2 if punctuation), between 0 and 10; here in fifths of a point.
C26_ComplexityFormula ==
  (ucall.fn = "calculateComplexity" /\ ucall.done) =>
    /\ ucall.result = Min(ucall.text.chars, 3 * 5)
                        + (IF ucall.text.words > 10 THEN 1 * 5 ELSE 0)
                        + (IF ucall.text.punct THEN 2 * 5 ELSE 0)
    /\ ucall.result >= 0
    /\ ucall.result <= 10 * 5

\* C26 witness: a text with more than 15 script characters, more than 10
\* words and punctuation scores 6; the empty string scores 0.
C26_Witness ==
  /\ ucall.fn = "calculateComplexity" /\ ucall.done
  /\ ucall.text.chars > 15 /\ ucall.text.words > 10 /\ ucall.text.punct
  /\ ucall.result = 6 * 5

(***************************************************************************)
(* Claims about the assessor over a session.                               *)
(***************************************************************************)
\* C27 (as stated): whenever a profile has been produced, the success rate
\* it was computed from equals successCount / (successCount + errorCount)
\* over the counters with the exchange that produced it counted.
C27_RateIncludesCurrentExchange ==
  rateUsed # NoRate =>
    rateUsed[1] * (successfulResponses + errorCount) = successfulResponses * rateUsed[2]

\* C28 (as stated): a profile produced in this session has the weakness
\* 'Grammar accuracy' exactly when the accumulated errorCount exceeds 3.
C28_GrammarWeaknessFromErrorCount ==
  rateUsed # NoRate =>
    ("Grammar accuracy" \in userLevel.weaknesses) = (errorCount > HIGH_ERRORS)

C30_RecommendationsDerived ==
  /\ recommendations = IF userLevel = NoProfile THEN <<>>
                        ELSE generateRecommendations(userLevel)
  /\ DOMAIN store \subseteq {STORAGE_KEYS[f] : f \in DOMAIN STORAGE_KEYS}

\* C30 witness: the session replaced a loaded elementary profile by an
\* intermediate one and the list follows it; the profile was stored.
C30_Witness ==
  /\ rateUsed # NoRate
  /\ userLevel.level = "intermediate"
  /\ "Grammar accuracy" \in userLevel.weaknesses
  /\ Len(recommendations) = 2
  /\ STORAGE_KEYS.LEVEL \in DOMAIN store
  /\ store[STORAGE_KEYS.LEVEL] = userLevel

(***************************************************************************)
(* Claims about failed exchanges, the store and the streak.                *)
(***************************************************************************)
\* C31: the continuation of a send that failed (fetchWithRetry threw, the
\* response it returned is not ok, or the body is not a reply) leaves the
\* counters, the profile, the recommendations, the topics, the vocabulary
\* and the streak as they were and appends exactly one error message.
C31_FailedExchangeOnlyReports ==
  [][\A body \in Bodies :
       (/\ SettleWith(body)
        /\ (fpc = "thrown" \/ ~ResponseOk(outcome.status) \/ body.kind # "reply")) =>
         /\ UNCHANGED <<successfulResponses, errorCount, userLevel, recommendations,
                        conversationTopics, wordsLearned, dailyStreak, lastPracticeDate>>
         /\ Len(messages') = Len(messages) + 1
         /\ SubSeq(messages', 1, Len(messages)) = messages
         /\ Last(messages') \in {"connection", "unavailable"}]_vars

\* C31 witness: after a counted exchange that taught words, a second send
\* was answered with a response that is not ok; the history ends with the
\* reply of the first and the error message of the second.
C31_Witness ==
  /\ inflight = NoFlight
  /\ messages = <<"welcome", "user", "ai", "user", "unavailable">>
  /\ successfulResponses + errorCount = 1
  /\ wordsLearned # {}

\* C32 (as stated): whenever setItemSafe returns false, the store after the
\* call is the store before it.
C32_FailedWriteLeavesStore ==
  (ucall.fn = "setItemSafe" /\ ~ucall.ok) => ucall.after = ucall.st

\* C33 (as stated): the streak follows the persisted record, reload or not.
\* When a reply arrives and the store holds the last-practice date and the
\* streak an earlier exchange wrote, the streak after the exchange is the
\* stored one if that date is today, the stored one plus 1 if it is
\* yesterday, and 1 otherwise.
C33_StreakSurvivesReload ==
  [][\A body \in AssessedBodies :
       (/\ SettleWith(body)
        /\ fpc = "returned"
        /\ ResponseOk(outcome.status)
        /\ body.kind = "reply"
        /\ STORAGE_KEYS.LAST_PRACTICE \in DOMAIN store
        /\ STORAGE_KEYS.STREAK \in DOMAIN store) =>
         dailyStreak' =
           IF store[STORAGE_KEYS.LAST_PRACTICE] = today THEN store[STORAGE_KEYS.STREAK]
           ELSE IF store[STORAGE_KEYS.LAST_PRACTICE] = today - 1
             THEN store[STORAGE_KEYS.STREAK] + 1
           ELSE 1]_vars

(***************************************************************************)
(* Claims about reset during a send, the text sent and the busy flag.      *)
(***************************************************************************)
\* C34 (as stated): the history holds no message of an exchange started
\* before the last reset. A reply or an error message of a send is appended
\* right after the user message of that send unless a reset came between
\* them, so in such a history each of them directly follows a user message.
C34_NoMessageFromBeforeReset ==
  \A i \in 1..Len(messages) :
    messages[i] \in {"ai", "connection", "unavailable"} =>
      /\ i > 1
      /\ messages[i - 1] = "user"

\* C35 (as stated): for every input validateAndSanitizeMessage accepts, the
\* sanitized text, which is the message of the request, has at least 1 and
\* at most MAX_MESSAGE_LENGTH characters.
C35_SentMessageWithinConstraints ==
  (ucall.fn = "validateAndSanitizeMessage" /\ ucall.done /\ ucall.valid) =>
    /\ ucall.sanitized >= INPUT_CONSTRAINTS.MIN_MESSAGE_LENGTH
    /\ ucall.sanitized <= INPUT_CONSTRAINTS.MAX_MESSAGE_LENGTH

(***************************************************************************)
(* Claims about the records of the rate limiter.                           *)
(***************************************************************************)
\* C36: every stored record has 1 <= count <= maxRequests, and its count is
\* the number of calls of its key that returned true since the record was
\* created or reset.
C36_CountIsAdmitsOfWindow ==
  \A k \in DOMAIN rateLimitMap :
    /\ rateLimitMap[k].count >= 1
    /\ rateLimitMap[k].count <= MAX_REQUESTS
    /\ rateLimitMap[k].count = gAdmits[k]

\* C36 witness: the record of a key is at the ceiling after calls beyond it
\* were made in its window, next to the record of another key.
C36_Witness ==
  /\ Driven \in DOMAIN rateLimitMap
  /\ rateLimitMap[Driven].count = MAX_REQUESTS
  /\ gCalls[Driven] = MAX_REQUESTS + MaxDenied
  /\ "unknown" \in DOMAIN rateLimitMap
  /\ rateLimitMap["unknown"].count = 1

\* C37: a call of checkRateLimit that returns false leaves rateLimitMap as
\* it was, and every call leaves the records of the other keys as they were.
\* (A step that keeps the clock is a call; lastCall' tells its key and what
\* it returned.)
C37_DeniedCallChangesNothing ==
  [][(now' = now /\ lastCall' # NoCall) =>
       LET k == lastCall'.key IN
       /\ (~lastCall'.allowed => rateLimitMap' = rateLimitMap)
       /\ DOMAIN rateLimitMap' = DOMAIN rateLimitMap \cup {k}
       /\ \A j \in DOMAIN rateLimitMap \ {k} : rateLimitMap'[j] = rateLimitMap[j]]_vars

\* C37 witness: a call is denied at the last instant of its key's window,
\* while another key has a record; the window still ends when it did.
C37_Witness ==
  /\ lastCall.key = Driven
  /\ ~lastCall.allowed
  /\ lastCall.at = gStart[Driven] + WINDOW_MS
  /\ rateLimitMap[Driven].resetTime = lastCall.at
  /\ "unknown" \in DOMAIN rateLimitMap

(***************************************************************************)
(* Claim about the busy flag.                                              *)
(***************************************************************************)
\* C38: a send that set the busy flag eventually clears it, however the
\* request ends, and whenever the flag is clear no call is pending, so the
\* next valid send is taken.
C38_BusyFlagIsCleared ==
  /\ [](~isLoading => (inflight = NoFlight /\ fpc = "idle"))
  /\ isLoading ~> ~isLoading

\* C38 witness: three sends ended with a response that is not ok, with a
\* thrown error and with a reply, and the flag is clear.
C38_Witness ==
  /\ ~isLoading
  /\ inflight = NoFlight
  /\ messages = <<"welcome", "user", "unavailable", "user", "connection", "user", "ai">>

====
